---- MODULE Spec2Model ----
(***************************************************************************)
(* Session layer of the MCP SDK: the client session loop with its callers  *)
(* (src/src/client/client.rs, src/src/client/session.rs) and the server    *)
(* session loop with its dispatcher (src/src/server/session.rs).           *)
(*                                                                         *)
(* The peer of each session is the environment: it may put any frame of a  *)
(* representative alphabet on the transport, close it, or make a read or   *)
(* a write fail.                                                           *)
(*                                                                         *)
(* Beside the two loops: the session group (src/src/client/                *)
(* session_group.rs), the typed send and receive of ProtocolConnection     *)
(* (src/src/protocol.rs, src/src/types.rs) and the schema generated by     *)
(* #[derive(ToolArguments)] (src/mcp_sdk_macros/src/lib.rs), each with a   *)
(* specification of its own.                                               *)
(***************************************************************************)
EXTENDS Integers, Sequences, FiniteSets, TLC

\* Number of requests one client session issues, the initialize request included.
MaxCalls == 3

\* Number of frames a peer puts on one server session's transport.
MaxInbound == 3

\* send_notification calls made on handles kept beyond a handler invocation.
MaxHandleSends == 1

\* Capacity of the client's outbound work queue and of the server session's
\* notification outbox, both mpsc::channel(32).
QueueCapacity == 32

\* JSON-RPC error codes, types.rs.
METHOD_NOT_FOUND == -32601
INVALID_PARAMS == -32602
INTERNAL_ERROR == -32603

(***************************************************************************)
(* Message model (types.rs)                                                *)
(***************************************************************************)

\* RequestId::Num(i64) and RequestId::Str(String); a Str payload is written
\* as the number its digits spell, the variant tag keeps the two apart.
Num(n) == [t |-> "Num", v |-> n]
\* A string identifier that compares and hashes as the integer it spells.
Str_Untagged(n) == [t |-> "Num", v |-> n]
Str(n) == [t |-> "Str", v |-> n]

\* "id" absent from the JSON object / present with a value that is neither an
\* integer nor a string (null, a float, an object).
NoId == [t |-> "Absent", v |-> 0]
BadId == [t |-> "Bad", v |-> 0]

\* serde_json::from_value::<RequestId>: the untagged enum accepts exactly an
\* integer or a string.
IsRequestId(id) == id.t \in {"Num", "Str"}

\* Identifiers the peer may put into a frame.
WireIds == {Num(0), Num(1), Num(2), Str(1)}

\* ErrorData {code, message}; NoError stands for an absent "error" member.
NoError == [code |-> 0, message |-> "-"]
ErrorDatas == {[code |-> METHOD_NOT_FOUND, message |-> "not found"],
               [code |-> INTERNAL_ERROR, message |-> "boom"]}

\* "result" values a peer may answer with: one that deserialises into
\* InitializeResult and one that does not; "-" stands for an absent member.
Results == {"InitializeResult", "other"}

\* A frame as the client loop sees it after recv_message::<Value>():
\* io = "msg" is Ok(Some(value)), "none" is Ok(None), "err" is Err(e);
\* params is "absent" or the value of the "params" member.
Frame(io, id, method, params, result, error, jsonrpc) ==
    [io |-> io, id |-> id, method |-> method, params |-> params, result |-> result,
     error |-> error, jsonrpc |-> jsonrpc]

\* recv_message handing every text to serde_json::from_str, which fails on an
\* empty one.
RecvOutcome_ParsesBlank(io) ==
    IF io = "none" THEN "Ok(None)"
    ELSE IF io = "msg" THEN "Ok(Some)"
    ELSE IF io \in {"err", "blank"} THEN "Err"
    ELSE "Pending"

\* ProtocolConnection::recv_message on what the adapter's recv() gave: None
\* ("none") is Ok(None); a text that is empty once trimmed ("blank") is
\* Ok(None) as well, before serde_json::from_str sees it; a text that parses
\* ("msg") is Ok(Some(value)); an adapter error or a text that does not parse
\* ("err") is Err; with nothing to read ("nothing") the future is pending.
RecvOutcome(io) ==
    IF io = "none" THEN "Ok(None)"
    ELSE IF io = "blank" THEN "Ok(None)"
    ELSE IF io = "msg" THEN "Ok(Some)"
    ELSE IF io = "err" THEN "Err"
    ELSE "Pending"

Nothing == Frame("nothing", NoId, "-", "absent", "-", NoError, FALSE)
Closed == Frame("none", NoId, "-", "absent", "-", NoError, FALSE)
ReadError == Frame("err", NoId, "-", "absent", "-", NoError, FALSE)
\* A frame whose text is empty or whitespace only.
Blank == Frame("blank", NoId, "-", "absent", "-", NoError, FALSE)

SuccessFrames == {Frame("msg", id, "-", "absent", r, NoError, TRUE) : id \in WireIds, r \in Results}
ErrorFrames == {Frame("msg", id, "-", "absent", "-", e, TRUE) : id \in WireIds, e \in ErrorDatas}
\* A frame with an id that is neither a success nor an error response: a
\* request of the peer.
PeerRequestFrames == {Frame("msg", id, "ping", "absent", "-", NoError, TRUE) : id \in WireIds}
BadIdFrames == {Frame("msg", BadId, "-", "absent", "other", NoError, TRUE)}
NotificationFrames ==
    {Frame("msg", NoId, m, "absent", "-", NoError, TRUE) :
        m \in {"notifications/tools/list_changed", "notifications/other"}}
\* The same notifications with a params member.
ParamsNotificationFrames ==
    {Frame("msg", NoId, m, "{}", "-", NoError, TRUE) :
        m \in {"notifications/tools/list_changed", "notifications/other"}}
\* A JSON value with neither "id" nor "method".
EmptyObjectFrames == {Frame("msg", NoId, "-", "absent", "-", NoError, TRUE)}

ClientInbound ==
    SuccessFrames \cup ErrorFrames \cup PeerRequestFrames \cup BadIdFrames
        \cup NotificationFrames \cup EmptyObjectFrames \cup {Closed, ReadError}

\* A peer that answers the handshake, answers with the identifier 1 as an
\* integer or as a string, and sends notifications with and without params.
LoopInbound ==
    {Frame("msg", Num(0), "-", "absent", "InitializeResult", NoError, TRUE),
     Frame("msg", Num(1), "-", "absent", "other", NoError, TRUE),
     Frame("msg", Str(1), "-", "absent", "other", NoError, TRUE),
     Closed}
        \cup NotificationFrames \cup ParamsNotificationFrames

\* serde_json::from_value::<JSONRPCResponse<Value>>: untagged, Success tried
\* first (jsonrpc, id, result), then Error (jsonrpc, id, error).
DeserializeResponse(raw) ==
    IF raw.jsonrpc /\ IsRequestId(raw.id) /\ raw.result # "-" THEN "Success"
    ELSE IF raw.jsonrpc /\ IsRequestId(raw.id) /\ raw.error # NoError THEN "Error"
    ELSE "Err"

(***************************************************************************)
(* State                                                                   *)
(***************************************************************************)
VARIABLES
    \* --- client ---
    client,            \* Client::new: "connecting", "ready", "failed"; "dropped"
    next_request_id,   \* Client.next_request_id
    calls,             \* the calls of send_request_with_id, in order of id allocation
    request_queue,     \* the mpsc channel request_sender -> request_receiver
    pending_requests,  \* ClientSession.pending_requests: RequestId -> reply slot
    notification_handlers, \* methods with a registered notification handler
    client_incoming,   \* the frame the client's adapter returns from recv()
    client_sent,       \* requests handed to the client's adapter, in order
    client_loop,       \* ClientSession::run: "running" or "ended"
    client_step,       \* what the loop did last
    first_response,    \* whether the first frame with an id carried Num(0)
    last_spawn,        \* the handler tasks the loop spawned in its last iteration
    executor,          \* the runtime the loop is spawned on: "free", or "starved"
                       \* when tasks that do not return hold all its worker threads
    \* --- server ---
    server,            \* the shared Server registry (immutable after build)
    is_initialized,    \* ServerSession.is_initialized
    server_incoming,   \* the frame the server's adapter returns from recv()
    inbound_count,     \* frames the peer has put on the transport so far
    notification_queue, \* the mpsc channel notification_tx -> notification_rx
    server_sent,       \* messages handed to the server's adapter, in order
    server_loop,       \* ServerSession::run: "running", "draining" (outbox closed),
                       \* "returned_ok", "returned_err"
    dispatched,        \* the frames handed to dispatch_request, in the order the
                       \* dispatches finished, with the number of the frame and
                       \* what each dispatch returned, invoked and wrote
    server_step,       \* what the loop did last
    handle_sends,      \* the send_notification calls made on retained handles
    drain,             \* the outbox and the log lengths when the outbox was closed
    in_progress,       \* the handler invocations that have begun and not returned
    \* --- library parts outside the two session loops ---
    group,             \* a ClientSessionGroup and its list_tools_all call
    codec,             \* a record on its way through a ProtocolConnection
    derive             \* a struct given to #[derive(ToolArguments)] and its schema

clientVars == <<client, next_request_id, calls, request_queue, pending_requests,
                notification_handlers, client_incoming, client_sent, client_loop,
                client_step, first_response, last_spawn, executor>>

serverVars == <<server, is_initialized, server_incoming, inbound_count,
                notification_queue, server_sent, server_loop, dispatched, server_step,
                handle_sends, drain, in_progress>>

libVars == <<group, codec, derive>>

vars == <<clientVars, serverVars, libVars>>

(***************************************************************************)
(* Client: callers (client.rs)                                             *)
(***************************************************************************)

\* The caller's view of its one-shot reply slot (rx.await): nothing yet, or
\* what the slot was completed with.
NoReply == [k |-> "none", result |-> "-", error |-> NoError]
OkReply(raw) == [k |-> "ok", result |-> raw.result, error |-> NoError]
PeerErrorReply(raw) == [k |-> "peer_error", result |-> "-", error |-> raw.error]
DeserializeFailedReply == [k |-> "deserialize_failed", result |-> "-", error |-> NoError]
ChannelClosed == [k |-> "channel_closed", result |-> "-", error |-> NoError]

\* One call of send_request_with_id: st is "allocated" (identifier taken, the
\* request not yet enqueued), "queued", "taken" (received by the loop) or
\* "failed" (the enqueue itself failed); n counts completions of the slot and
\* by is the frame that completed it.
NewCall(id, method) ==
    [id |-> id, method |-> method, st |-> "allocated", reply |-> NoReply, n |-> 0,
     by |-> Nothing]

\* The methods of the public API that go through send_request.
ClientMethods == {"tools/list", "tools/call"}

\* HashMap<RequestId, ResponseSender>: a function from the identifiers present
\* to the call whose sender is stored.
EmptyMap == [id \in {} |-> 0]
Insert(m, k, v) == [x \in DOMAIN m \cup {k} |-> IF x = k THEN v ELSE m[x]]
Remove(m, k) == [x \in DOMAIN m \ {k} |-> m[x]]

Complete(c, reply, raw) == [c EXCEPT !.reply = reply, !.n = c.n + 1, !.by = raw]

\* A session whose end leaves the reply slots as they are (the senders kept
\* alive elsewhere).
DropSession_KeepsSenders(cs, queue, pending) == cs

\* A session whose end drops the pending map only: the requests still in the
\* work queue keep their senders.
DropSession_PendingOnly(cs, queue, pending) ==
    [i \in DOMAIN cs |->
        LET inPending == Cardinality({id \in DOMAIN pending : pending[id] = i})
        IN IF inPending > 0
           THEN [cs[i] EXCEPT !.reply = ChannelClosed, !.n = cs[i].n + inPending]
           ELSE cs[i]]

\* Dropping the session (run returned or the task was aborted) drops the
\* pending map and the receiver of the queue, and with them every sender of a
\* reply slot they hold: rx.await yields RecvError, i.e. ChannelClosed.
DropSession(cs, queue, pending) ==
    [i \in DOMAIN cs |->
        LET inQueue == Cardinality({k \in DOMAIN queue : queue[k] = i})
            inPending == Cardinality({id \in DOMAIN pending : pending[id] = i})
        IN IF inQueue + inPending > 0
           THEN [cs[i] EXCEPT !.reply = ChannelClosed, !.n = cs[i].n + inQueue + inPending]
           ELSE cs[i]]

ClientInit ==
    /\ client = "connecting"
    /\ next_request_id = 1
    /\ calls = <<NewCall(Num(0), "initialize")>>
    /\ request_queue = <<>>
    /\ pending_requests = EmptyMap
    /\ notification_handlers = {}
    /\ client_incoming = Nothing
    /\ client_sent = <<>>
    /\ client_loop = "running"
    /\ client_step = "spawned"
    /\ first_response = "none"
    /\ last_spawn = <<>>
    /\ executor = "free"

\* new_request_id reading the counter (load) where the code adds to it.
NewRequestId_Load ==
    /\ client = "ready"
    /\ Len(calls) < MaxCalls
    /\ \E method \in ClientMethods :
           calls' = Append(calls, NewCall(Num(next_request_id), method))
    /\ UNCHANGED <<client, next_request_id, request_queue, pending_requests,
                   notification_handlers, client_incoming, client_sent, client_loop,
                   client_step, first_response>>
    /\ UNCHANGED <<last_spawn, executor>>
    /\ UNCHANGED serverVars
    /\ UNCHANGED libVars

\* Client::new_request_id, first half of send_request: fetch_add on the counter.
NewRequestId ==
    /\ client = "ready"
    /\ Len(calls) < MaxCalls
    /\ \E method \in ClientMethods :
           calls' = Append(calls, NewCall(Num(next_request_id), method))
    /\ next_request_id' = next_request_id + 1
    /\ UNCHANGED <<client, request_queue, pending_requests, notification_handlers,
                   client_incoming, client_sent, client_loop, client_step, first_response>>
    /\ UNCHANGED <<last_spawn, executor>>
    /\ UNCHANGED serverVars
    /\ UNCHANGED libVars

\* The most calls made on one client when its callers come in a burst.
MaxBurst == 34

\* new_request_id of the next caller of a burst of list_tools calls; the
\* callers of a burst arrive one after the other, each once the one before it
\* has handed its request to the queue.
BurstRequestId ==
    /\ client = "ready"
    /\ Len(calls) < MaxBurst
    /\ \A i \in DOMAIN calls : calls[i].st # "allocated"
    /\ calls' = Append(calls, NewCall(Num(next_request_id), "tools/list"))
    /\ next_request_id' = next_request_id + 1
    /\ UNCHANGED <<client, request_queue, pending_requests, notification_handlers,
                   client_incoming, client_sent, client_loop, client_step, first_response>>
    /\ UNCHANGED <<last_spawn, executor>>
    /\ UNCHANGED serverVars
    /\ UNCHANGED libVars

\* send_request_with_id on a channel without a capacity.
SendRequestWithId_Unbounded(i) ==
    /\ i \in DOMAIN calls
    /\ calls[i].st = "allocated"
    /\ IF client_loop = "ended"
       THEN /\ calls' = [calls EXCEPT ![i] = [Complete(calls[i], ChannelClosed, Nothing)
                                                EXCEPT !.st = "failed"]]
            /\ UNCHANGED request_queue
       ELSE /\ calls' = [calls EXCEPT ![i].st = "queued"]
            /\ request_queue' = Append(request_queue, i)
    /\ UNCHANGED <<client, next_request_id, pending_requests, notification_handlers,
                   client_incoming, client_sent, client_loop, client_step, first_response>>
    /\ UNCHANGED <<last_spawn, executor>>
    /\ UNCHANGED serverVars
    /\ UNCHANGED libVars

\* send_request_with_id: request_sender.send((request, tx)).await? on the
\* channel of capacity 32: the send waits while the queue is full.
\* With the receiver dropped the send fails with SendError -> ChannelClosed.
SendRequestWithId(i) ==
    /\ i \in DOMAIN calls
    /\ calls[i].st = "allocated"
    /\ Len(request_queue) < QueueCapacity
    /\ IF client_loop = "ended"
       THEN /\ calls' = [calls EXCEPT ![i] = [Complete(calls[i], ChannelClosed, Nothing)
                                                EXCEPT !.st = "failed"]]
            /\ UNCHANGED request_queue
       ELSE /\ calls' = [calls EXCEPT ![i].st = "queued"]
            /\ request_queue' = Append(request_queue, i)
    /\ UNCHANGED <<client, next_request_id, pending_requests, notification_handlers,
                   client_incoming, client_sent, client_loop, client_step, first_response>>
    /\ UNCHANGED <<last_spawn, executor>>
    /\ UNCHANGED serverVars
    /\ UNCHANGED libVars

\* Client::on_tools_list_changed: registers the handler under its method name.
OnToolsListChanged ==
    /\ client = "ready"
    /\ "notifications/tools/list_changed" \notin notification_handlers
    /\ notification_handlers' =
           notification_handlers \cup {"notifications/tools/list_changed"}
    /\ UNCHANGED <<client, next_request_id, calls, request_queue, pending_requests,
                   client_incoming, client_sent, client_loop, client_step, first_response>>
    /\ UNCHANGED <<last_spawn, executor>>
    /\ UNCHANGED serverVars
    /\ UNCHANGED libVars

(***************************************************************************)
(* Client: the session loop (client/session.rs)                            *)
(***************************************************************************)

\* handle_response with the slot looked up (get) and left in the map.
HandleResponse_KeepsSlot(raw, cs, pending) ==
    IF ~IsRequestId(raw.id)
    THEN [calls |-> cs, pending |-> pending, step |-> "unparsable_id"]
    ELSE IF raw.id \notin DOMAIN pending
    THEN [calls |-> cs, pending |-> pending, step |-> "stray_response"]
    ELSE LET i == pending[raw.id]
             kind == DeserializeResponse(raw)
             reply == CASE kind = "Success" -> OkReply(raw)
                        [] kind = "Error" -> PeerErrorReply(raw)
                        [] OTHER -> DeserializeFailedReply
         IN [calls |-> [cs EXCEPT ![i] = Complete(cs[i], reply, raw)],
             pending |-> pending,
             step |-> "response"]

\* handle_response with the slot looked up by the identifier's payload alone,
\* whatever its variant.
HandleResponse_IgnoresVariant(raw, cs, pending) ==
    LET same == {id \in DOMAIN pending : id.v = raw.id.v} IN
    IF ~IsRequestId(raw.id)
    THEN [calls |-> cs, pending |-> pending, step |-> "unparsable_id"]
    ELSE IF same = {}
    THEN [calls |-> cs, pending |-> pending, step |-> "stray_response"]
    ELSE LET key == CHOOSE id \in same : TRUE
             i == pending[key]
             kind == DeserializeResponse(raw)
             reply == CASE kind = "Success" -> OkReply(raw)
                        [] kind = "Error" -> PeerErrorReply(raw)
                        [] OTHER -> DeserializeFailedReply
         IN [calls |-> [cs EXCEPT ![i] = Complete(cs[i], reply, raw)],
             pending |-> Remove(pending, key),
             step |-> "response"]

\* ClientSession::handle_response: parse the id, remove the slot stored under
\* it and complete it with what the frame deserialises to; without a slot (or
\* without a parsable id) the frame is dropped.
HandleResponse(raw, cs, pending) ==
    IF ~IsRequestId(raw.id)
    THEN [calls |-> cs, pending |-> pending, step |-> "unparsable_id"]
    ELSE IF raw.id \notin DOMAIN pending
    THEN [calls |-> cs, pending |-> pending, step |-> "stray_response"]
    ELSE LET i == pending[raw.id]
             kind == DeserializeResponse(raw)
             reply == CASE kind = "Success" -> OkReply(raw)
                        [] kind = "Error" -> PeerErrorReply(raw)
                        [] OTHER -> DeserializeFailedReply
         IN [calls |-> [cs EXCEPT ![i] = Complete(cs[i], reply, raw)],
             pending |-> Remove(pending, raw.id),
             step |-> "response"]

\* The call (handler)(params) a spawned task makes.
HandlerTask(method, params) == [method |-> method, params |-> params]

\* handle_notification handing the handler the params member as it found it.
HandleNotification_RawParams(raw, handlers) ==
    IF raw.method \in handlers
    THEN [step |-> "handler_spawned", spawned |-> <<HandlerTask(raw.method, raw.params)>>]
    ELSE [step |-> "unhandled_notification", spawned |-> <<>>]

\* ClientSession::handle_notification: the handler registered for the method
\* is called on a task made with tokio::spawn, with the params member or
\* Value::Null when there is none; without a handler the notification is
\* dropped.
HandleNotification(raw, handlers) ==
    IF raw.method \in handlers
    THEN [step |-> "handler_spawned",
          spawned |-> <<HandlerTask(raw.method,
                                    IF raw.params = "absent" THEN "null" ELSE raw.params)>>]
    ELSE [step |-> "unhandled_notification", spawned |-> <<>>]

\* First branch of the biased select in ClientSession::run: a request from
\* the work queue is recorded in the pending map and handed to the transport;
\* a failed write ends the loop. HashMap::insert drops the sender it replaces.
TakeRequest(ok) ==
    /\ client_loop = "running"
    /\ executor = "free"
    /\ request_queue # <<>>
    /\ LET i == Head(request_queue)
           id == calls[i].id
           taken == [calls EXCEPT ![i].st = "taken"]
           replaced == IF id \in DOMAIN pending_requests
                       THEN [taken EXCEPT ![pending_requests[id]] =
                                Complete(taken[pending_requests[id]], ChannelClosed, Nothing)]
                       ELSE taken
           inserted == Insert(pending_requests, id, i)
       IN /\ client_sent' = Append(client_sent, [id |-> id, method |-> calls[i].method])
          /\ IF ok
             THEN /\ calls' = replaced
                  /\ pending_requests' = inserted
                  /\ request_queue' = Tail(request_queue)
                  /\ client_loop' = "running"
                  /\ client_step' = "request_sent"
             ELSE /\ calls' = DropSession(replaced, Tail(request_queue), inserted)
                  /\ pending_requests' = EmptyMap
                  /\ request_queue' = <<>>
                  /\ client_loop' = "ended"
                  /\ client_step' = "write_failed"
    /\ UNCHANGED <<client, next_request_id, notification_handlers, client_incoming,
                   first_response>>
    /\ last_spawn' = <<>>
    /\ UNCHANGED executor
    /\ UNCHANGED serverVars
    /\ UNCHANGED libVars

\* The receive branch of a select without biased: taken whenever a frame is
\* ready, whatever the work queue holds.
RecvMessage_Unbiased ==
    /\ client_loop = "running"
    /\ executor = "free"
    /\ client_incoming # Nothing
    /\ LET raw == client_incoming IN
       IF RecvOutcome(raw.io) # "Ok(Some)"
       THEN /\ calls' = DropSession(calls, request_queue, pending_requests)
            /\ pending_requests' = EmptyMap
            /\ client_loop' = "ended"
            /\ client_step' = IF RecvOutcome(raw.io) = "Ok(None)" THEN "closed" ELSE "read_error"
            /\ last_spawn' = <<>>
       ELSE IF raw.id # NoId
       THEN LET r == HandleResponse(raw, calls, pending_requests)
            IN /\ calls' = r.calls
               /\ pending_requests' = r.pending
               /\ client_step' = r.step
               /\ client_loop' = "running"
               /\ last_spawn' = <<>>
       ELSE IF raw.method # "-"
       THEN LET n == HandleNotification(raw, notification_handlers)
            IN /\ client_step' = n.step
               /\ last_spawn' = n.spawned
               /\ UNCHANGED <<calls, pending_requests, client_loop>>
       ELSE /\ client_step' = "ignored"
            /\ last_spawn' = <<>>
            /\ UNCHANGED <<calls, pending_requests, client_loop>>
    /\ first_response' =
           IF first_response = "none" /\ client_incoming.io = "msg"
              /\ client_incoming.id # NoId
           THEN (IF client_incoming.id = Num(0) THEN "match" ELSE "mismatch")
           ELSE first_response
    /\ client_incoming' = Nothing
    /\ UNCHANGED <<client, next_request_id, notification_handlers, request_queue,
                   client_sent>>
    /\ UNCHANGED executor
    /\ UNCHANGED serverVars
    /\ UNCHANGED libVars

\* Second branch of the biased select: polled only when the work queue is
\* empty. A frame with an id goes to handle_response, one with a method and
\* no id to handle_notification, any other is ignored; Ok(None) and Err end
\* the loop.
RecvMessage ==
    /\ client_loop = "running"
    /\ executor = "free"
    /\ request_queue = <<>>
    /\ client_incoming # Nothing
    /\ LET raw == client_incoming IN
       IF RecvOutcome(raw.io) # "Ok(Some)"
       THEN /\ calls' = DropSession(calls, request_queue, pending_requests)
            /\ pending_requests' = EmptyMap
            /\ client_loop' = "ended"
            /\ client_step' = IF RecvOutcome(raw.io) = "Ok(None)" THEN "closed" ELSE "read_error"
            /\ last_spawn' = <<>>
       ELSE IF raw.id # NoId
       THEN LET r == HandleResponse(raw, calls, pending_requests)
            IN /\ calls' = r.calls
               /\ pending_requests' = r.pending
               /\ client_step' = r.step
               /\ client_loop' = "running"
               /\ last_spawn' = <<>>
       ELSE IF raw.method # "-"
       THEN LET n == HandleNotification(raw, notification_handlers)
            IN /\ client_step' = n.step
               /\ last_spawn' = n.spawned
               /\ UNCHANGED <<calls, pending_requests, client_loop>>
       ELSE /\ client_step' = "ignored"
            /\ last_spawn' = <<>>
            /\ UNCHANGED <<calls, pending_requests, client_loop>>
    /\ first_response' =
           IF first_response = "none" /\ client_incoming.io = "msg"
              /\ client_incoming.id # NoId
           THEN (IF client_incoming.id = Num(0) THEN "match" ELSE "mismatch")
           ELSE first_response
    /\ client_incoming' = Nothing
    /\ UNCHANGED <<client, next_request_id, notification_handlers, request_queue,
                   client_sent>>
    /\ UNCHANGED executor
    /\ UNCHANGED serverVars
    /\ UNCHANGED libVars

\* The peer (or the transport) makes the next frame ready.
PeerSends(raw) ==
    /\ client_loop = "running"
    /\ client_incoming = Nothing
    /\ client_incoming' = raw
    /\ UNCHANGED <<client, next_request_id, calls, request_queue, pending_requests,
                   notification_handlers, client_sent, client_loop, client_step,
                   first_response>>
    /\ UNCHANGED <<last_spawn, executor>>
    /\ UNCHANGED serverVars
    /\ UNCHANGED libVars

\* The transport of the client has the next frame of the peer ready, whether
\* or not anything still reads from it.
FrameArrives(raw) ==
    /\ client_incoming = Nothing
    /\ client_incoming' = raw
    /\ UNCHANGED <<client, next_request_id, calls, request_queue, pending_requests,
                   notification_handlers, client_sent, client_loop, client_step,
                   first_response>>
    /\ UNCHANGED <<last_spawn, executor>>
    /\ UNCHANGED serverVars
    /\ UNCHANGED libVars

\* Drop for Client: session_handle.abort(); the aborted task drops the session.
AbortSession ==
    /\ calls' = DropSession(calls, request_queue, pending_requests)
    /\ pending_requests' = EmptyMap
    /\ request_queue' = <<>>
    /\ client_loop' = "ended"

\* Client::new returning the handle whatever the initialize call returned.
ClientNewReturns_IgnoresError ==
    /\ client = "connecting"
    /\ calls[1].reply # NoReply
    /\ client' = "ready"
    /\ UNCHANGED <<calls, pending_requests, request_queue, client_loop,
                   next_request_id, notification_handlers, client_incoming,
                   client_sent, client_step, first_response>>
    /\ UNCHANGED <<last_spawn, executor>>
    /\ UNCHANGED serverVars
    /\ UNCHANGED libVars

\* Client::new after send_request_with_id(RequestId::Num(0), "initialize", ..)
\* has returned: Ok(client) when the reply is a result that deserialises into
\* InitializeResult; otherwise `?` returns the error and the client is dropped.
ClientNewReturns ==
    /\ client = "connecting"
    /\ calls[1].reply # NoReply
    /\ IF calls[1].reply.k = "ok" /\ calls[1].reply.result = "InitializeResult"
       THEN /\ client' = "ready"
            /\ UNCHANGED <<calls, pending_requests, request_queue, client_loop>>
       ELSE /\ client' = "failed"
            /\ AbortSession
    /\ UNCHANGED <<next_request_id, notification_handlers, client_incoming,
                   client_sent, client_step, first_response>>
    /\ UNCHANGED <<last_spawn, executor>>
    /\ UNCHANGED serverVars
    /\ UNCHANGED libVars

\* The owner drops the client handle; no call borrows it any more.
DropClient ==
    /\ client = "ready"
    /\ \A i \in DOMAIN calls : calls[i].reply # NoReply
    /\ client' = "dropped"
    /\ AbortSession
    /\ UNCHANGED <<next_request_id, notification_handlers, client_incoming,
                   client_sent, client_step, first_response>>
    /\ UNCHANGED <<last_spawn, executor>>
    /\ UNCHANGED serverVars
    /\ UNCHANGED libVars

\* A handler task spawned by the last receive does not return. The handler
\* is a synchronous Fn run by tokio::spawn, so it keeps the worker thread it
\* runs on: the only one of a current_thread runtime, the last free one of a
\* multi_thread runtime whose other workers are held in the same way.
HandlerNeverReturns ==
    /\ last_spawn # <<>>
    /\ executor = "free"
    /\ executor' = "starved"
    /\ UNCHANGED <<client, next_request_id, calls, request_queue, pending_requests,
                   notification_handlers, client_incoming, client_sent, client_loop,
                   client_step, first_response, last_spawn>>
    /\ UNCHANGED serverVars
    /\ UNCHANGED libVars

ClientNext ==
    \/ NewRequestId
    \/ \E i \in DOMAIN calls : SendRequestWithId(i)
    \/ OnToolsListChanged
    \/ \E ok \in BOOLEAN : TakeRequest(ok)
    \/ RecvMessage
    \/ \E raw \in ClientInbound : PeerSends(raw)
    \/ ClientNewReturns
    \/ DropClient

\* The same session and callers against the peer of LoopInbound.
LoopNext ==
    \/ NewRequestId
    \/ \E i \in DOMAIN calls : SendRequestWithId(i)
    \/ OnToolsListChanged
    \/ \E ok \in BOOLEAN : TakeRequest(ok)
    \/ RecvMessage
    \/ \E raw \in LoopInbound : PeerSends(raw)
    \/ ClientNewReturns
    \/ DropClient

(***************************************************************************)
(* Server: registry (server/server.rs) and frames                          *)
(***************************************************************************)

\* Server::new(name) without registrations, and a server with one tool
\* registered with register_tool, one registered with register_tool_typed and
\* a handler for each of the four non-tool methods.
\* tools are the keys of tools_and_handlers, typed those whose handler is
\* ToolHandler::Typed.
Registry(tools, typed, handlers) == [tools |-> tools, typed |-> typed, handlers |-> handlers]
NonToolMethods == {"resources/list", "resources/read", "prompts/list", "prompts/get"}
Registries ==
    {Registry({}, {}, {}),
     Registry({"echo", "typed_echo"}, {"typed_echo"}, NonToolMethods)}

\* A frame as the server loop sees it after recv_message::<Value>(). params is
\* "valid" (deserialises into the parameter record of the method), "invalid"
\* (present, does not deserialise into it) or "absent"; name is the tool a
\* valid tools/call names and arguments tells whether its arguments value
\* deserialises into the argument record of a typed tool ("valid") or not
\* ("invalid"); any arguments value is a Value for an untyped tool.
ServerFrame(io, id, method, params, name, arguments, jsonrpc) ==
    [io |-> io, id |-> id, method |-> method, params |-> params, name |-> name,
     arguments |-> arguments, jsonrpc |-> jsonrpc]

NoFrame == ServerFrame("nothing", NoId, "-", "absent", "-", "-", FALSE)
PeerClosed == ServerFrame("none", NoId, "-", "absent", "-", "-", FALSE)
PeerReadError == ServerFrame("err", NoId, "-", "absent", "-", "-", FALSE)
\* A frame whose text is empty or whitespace only.
BlankFrame == ServerFrame("blank", NoId, "-", "absent", "-", "-", FALSE)

RequestFrame(id, method, params, name) ==
    ServerFrame("msg", id, method, params, name, IF name = "-" THEN "-" ELSE "valid", TRUE)

\* A tools/call request whose params deserialise into CallToolParams.
ToolCallFrame(id, name, arguments) ==
    ServerFrame("msg", id, "tools/call", "valid", name, arguments, TRUE)

ServerInbound ==
    {RequestFrame(Num(0), "initialize", "valid", "-"),
     RequestFrame(Str(1), "initialize", "valid", "-"),
     RequestFrame(Num(0), "initialize", "invalid", "-"),
     RequestFrame(Num(0), "tools/list", "valid", "-"),
     RequestFrame(Num(1), "tools/list", "absent", "-"),
     RequestFrame(Num(1), "tools/call", "valid", "echo"),
     RequestFrame(Str(1), "tools/call", "valid", "nonexistent"),
     RequestFrame(Num(1), "tools/call", "invalid", "-"),
     ToolCallFrame(Num(1), "typed_echo", "valid"),
     ToolCallFrame(Num(1), "typed_echo", "invalid"),
     RequestFrame(Num(1), "resources/list", "valid", "-"),
     RequestFrame(Num(1), "resources/read", "invalid", "-"),
     RequestFrame(Num(1), "prompts/get", "valid", "-"),
     RequestFrame(Num(1), "foo/bar", "valid", "-"),
     RequestFrame(NoId, "notifications/initialized", "valid", "-"),
     RequestFrame(NoId, "notifications/other", "absent", "-"),
     RequestFrame(BadId, "tools/list", "valid", "-"),
     PeerClosed, PeerReadError}

\* Request<T> with an optional id member.
ParsesAsRequestValue_IdOptional(raw) ==
    raw.jsonrpc /\ raw.id # BadId /\ raw.method # "-" /\ raw.params # "absent"

\* serde_json::from_value::<Request<T>>: jsonrpc, a parsable id, a method and
\* params that deserialise into T; for T = Value any present params do.
ParsesAsRequestValue(raw) ==
    raw.jsonrpc /\ IsRequestId(raw.id) /\ raw.method # "-" /\ raw.params # "absent"
ParsesAsRequestOf(raw) == ParsesAsRequestValue(raw) /\ raw.params = "valid"

\* serde_json::from_value::<Notification<Value>>: jsonrpc and a method;
\* params are optional.
ParsesAsNotification(raw) == raw.jsonrpc /\ raw.method # "-"

\* Messages the session hands to its adapter. An error message is the tuple
\* of the parts format! puts together.
SuccessResponse(id, result) ==
    [kind |-> "result", id |-> id, result |-> result, code |-> 0, message |-> <<>>]
ErrorResponseMsg(id, code, message) ==
    [kind |-> "error", id |-> id, result |-> <<>>, code |-> code, message |-> message]
NotificationMsg(method) ==
    [kind |-> "notification", id |-> NoId, result |-> <<"Notification", method>>, code |-> 0,
     message |-> <<>>]

\* Capabilities that advertise tools whatever is registered.
Capabilities_Always(srv) == "tools.listChanged=false"

\* ServerCapabilities computed by handle_initialize: tools is
\* Some(ToolsCapability {list_changed: Some(false)}) when a tool is registered.
Capabilities(srv) == IF srv.tools # {} THEN "tools.listChanged=false" ELSE "no tools"
InitializeResultOf(srv) == <<"InitializeResult", Capabilities(srv)>>
ListToolsResultOf(srv) == <<"ListToolsResult", srv.tools>>
HandlerResult(method) == <<"HandlerResult", method>>
CallToolResultOf(name) == <<"CallToolResult", name>>

\* The CallToolResult the wrapper of register_tool_typed synthesises:
\* is_error: true and one text item made by format! from the tool's name, the
\* serde error and the schema.
InvalidArgumentsResult(name) ==
    <<"CallToolResult", name, "isError=true",
      <<"Invalid arguments for tool", name, "serde error", "Expected schema">>>>

\* What one user handler does during one invocation: it returns Ok or Err,
\* and a tool handler may first send one notification on its handle.
HandlerOutcomes == [res : {"ok", "err"}, notifies : BOOLEAN]

\* The value dispatch_request computes: the new flag, the messages handed to
\* the adapter, the notifications handlers put into the outbox, the handlers
\* invoked and the Result returned to run.
Outcome(init, sent, queued, invoked, ret) ==
    [is_initialized |-> init, sent |-> sent, queued |-> queued, invoked |-> invoked,
     ret |-> ret]

\* handle_initialize answering under the identifier the handshake is expected
\* to use, 0, whatever the request carried.
HandleInitialize_IdZero(raw, srv, write_ok) ==
    IF raw.method = "initialize"
    THEN IF ~ParsesAsRequestOf(raw)
         THEN Outcome(FALSE, <<>>, <<>>, <<>>, "Err")
         ELSE Outcome(write_ok,
                      <<SuccessResponse(Num(0), InitializeResultOf(srv))>>,
                      <<>>, <<>>, IF write_ok THEN "Ok" ELSE "Err")
    ELSE Outcome(FALSE, <<>>, <<>>, <<>>, "Err")

\* handle_initialize setting the flag before it looks at the message.
HandleInitialize_FlagFirst(raw, srv, write_ok) ==
    IF raw.method = "initialize"
    THEN IF ~ParsesAsRequestOf(raw)
         THEN Outcome(TRUE, <<>>, <<>>, <<>>, "Err")
         ELSE Outcome(TRUE,
                      <<SuccessResponse(raw.id, InitializeResultOf(srv))>>,
                      <<>>, <<>>, IF write_ok THEN "Ok" ELSE "Err")
    ELSE Outcome(TRUE, <<>>, <<>>, <<>>, "Err")

\* ServerSession::handle_initialize.
HandleInitialize(raw, srv, write_ok) ==
    IF raw.method = "initialize"
    THEN IF ~ParsesAsRequestOf(raw)
         THEN Outcome(FALSE, <<>>, <<>>, <<>>, "Err")
         ELSE Outcome(write_ok,
                      <<SuccessResponse(raw.id, InitializeResultOf(srv))>>,
                      <<>>, <<>>, IF write_ok THEN "Ok" ELSE "Err")
    ELSE Outcome(FALSE, <<>>, <<>>, <<>>, "Err")

\* ServerSession::send_error.
SendError(id, code, message) ==
    Outcome(TRUE, <<ErrorResponseMsg(id, code, message)>>, <<>>, <<>>, "Ok")

\* dispatch deserialising the params before it looks for the handler.
Dispatch_ParamsFirst(raw, srv, h) ==
    IF raw.params # "valid"
    THEN SendError(raw.id, INVALID_PARAMS, <<"serde error">>)
    ELSE IF raw.method \in srv.handlers
    THEN IF h.res = "ok"
         THEN Outcome(TRUE, <<SuccessResponse(raw.id, HandlerResult(raw.method))>>,
                      <<>>, <<raw.method>>, "Ok")
         ELSE [SendError(raw.id, INTERNAL_ERROR, <<"handler error">>)
                   EXCEPT !.invoked = <<raw.method>>]
    ELSE SendError(raw.id, METHOD_NOT_FOUND,
                   <<"Method", raw.method, "has no registered handler">>)

\* ServerSession::dispatch, for the four non-tool methods.
Dispatch(raw, srv, h) ==
    IF raw.method \in srv.handlers
    THEN IF raw.params = "valid"
         THEN IF h.res = "ok"
              THEN Outcome(TRUE, <<SuccessResponse(raw.id, HandlerResult(raw.method))>>,
                           <<>>, <<raw.method>>, "Ok")
              ELSE [SendError(raw.id, INTERNAL_ERROR, <<"handler error">>)
                        EXCEPT !.invoked = <<raw.method>>]
         ELSE SendError(raw.id, INVALID_PARAMS, <<"serde error">>)
    ELSE SendError(raw.id, METHOD_NOT_FOUND,
                   <<"Method", raw.method, "has no registered handler">>)

\* A tool handler written by the user, called with the handle of the
\* connection and the arguments: it returns Ok(CallToolResult) or Err, and may
\* first send one notification on the handle.
UserToolHandler(raw, h) ==
    [res |-> h.res, result |-> CallToolResultOf(raw.name), invoked |-> <<raw.name>>,
     queued |-> IF h.notifies
                THEN <<NotificationMsg("notifications/tools/list_changed")>>
                ELSE <<>>]

\* The wrapper of register_tool_typed returning the serde error as Err.
WrappedHandler_PropagatesErr(raw, h) ==
    IF raw.arguments = "valid"
    THEN UserToolHandler(raw, h)
    ELSE [res |-> "err", result |-> InvalidArgumentsResult(raw.name), invoked |-> <<>>,
          queued |-> <<>>]

\* The handler register_tool_typed stores (ToolHandler::Typed): the arguments
\* are deserialised into Args; on success the user handler runs, on failure
\* the wrapper itself returns Ok with an is_error result.
WrappedHandler(raw, h) ==
    IF raw.arguments = "valid"
    THEN UserToolHandler(raw, h)
    ELSE [res |-> "ok", result |-> InvalidArgumentsResult(raw.name), invoked |-> <<>>,
          queued |-> <<>>]

\* tools/call with the lookup failure propagated as an Err (no response).
CallTool_LookupErr(raw, srv, h) ==
    IF raw.params # "valid"
    THEN Outcome(TRUE, <<>>, <<>>, <<>>, "Err")
    ELSE IF raw.name \in srv.tools
    THEN LET r == IF raw.name \in srv.typed
                  THEN WrappedHandler(raw, h)
                  ELSE UserToolHandler(raw, h)
         IN IF r.res = "ok"
            THEN Outcome(TRUE, <<SuccessResponse(raw.id, r.result)>>,
                         r.queued, r.invoked, "Ok")
            ELSE Outcome(TRUE, <<>>, r.queued, r.invoked, "Err")
    ELSE Outcome(TRUE, <<>>, <<>>, <<>>, "Err")

\* The tools/call arm of dispatch_request.
CallTool(raw, srv, h) ==
    IF raw.params # "valid"
    THEN Outcome(TRUE, <<>>, <<>>, <<>>, "Err")
    ELSE IF raw.name \in srv.tools
    THEN LET r == IF raw.name \in srv.typed
                  THEN WrappedHandler(raw, h)
                  ELSE UserToolHandler(raw, h)
         IN IF r.res = "ok"
            THEN Outcome(TRUE, <<SuccessResponse(raw.id, r.result)>>,
                         r.queued, r.invoked, "Ok")
            ELSE Outcome(TRUE, <<>>, r.queued, r.invoked, "Err")
    ELSE SendError(raw.id, METHOD_NOT_FOUND, <<"Tool", raw.name, "not found">>)

\* dispatch_request without the check of the initialized flag.
DispatchRequest_NoInitCheck(raw, init, srv, h, write_ok) ==
    IF /\ raw.id = NoId /\ raw.method # "-"
       /\ ParsesAsNotification(raw) /\ raw.method = "notifications/initialized"
    THEN Outcome(init, <<>>, <<>>, <<>>, "Ok")
    ELSE IF ~init /\ raw.method = "initialize"
    THEN HandleInitialize(raw, srv, write_ok)
    ELSE IF ~ParsesAsRequestValue(raw)
    THEN Outcome(init, <<>>, <<>>, <<>>, "Err")
    ELSE CASE raw.method = "tools/list" ->
                Outcome(init, <<SuccessResponse(raw.id, ListToolsResultOf(srv))>>,
                        <<>>, <<>>, "Ok")
           [] raw.method = "tools/call" -> [CallTool(raw, srv, h) EXCEPT !.is_initialized = init]
           [] raw.method \in NonToolMethods ->
                [Dispatch(raw, srv, h) EXCEPT !.is_initialized = init]
           [] raw.method = "initialize" -> Outcome(init, <<>>, <<>>, <<>>, "Err")
           [] OTHER -> [SendError(raw.id, METHOD_NOT_FOUND,
                                  <<"Method", raw.method, "not found">>)
                            EXCEPT !.is_initialized = init]

\* ServerSession::dispatch_request.
DispatchRequest(raw, init, srv, h, write_ok) ==
    IF /\ raw.id = NoId /\ raw.method # "-"
       /\ ParsesAsNotification(raw) /\ raw.method = "notifications/initialized"
    THEN Outcome(init, <<>>, <<>>, <<>>, "Ok")
    ELSE IF ~init
    THEN HandleInitialize(raw, srv, write_ok)
    ELSE IF ~ParsesAsRequestValue(raw)
    THEN Outcome(TRUE, <<>>, <<>>, <<>>, "Err")
    ELSE CASE raw.method = "tools/list" ->
                Outcome(TRUE, <<SuccessResponse(raw.id, ListToolsResultOf(srv))>>,
                        <<>>, <<>>, "Ok")
           [] raw.method = "tools/call" -> CallTool(raw, srv, h)
           [] raw.method \in NonToolMethods -> Dispatch(raw, srv, h)
           [] raw.method = "initialize" -> Outcome(TRUE, <<>>, <<>>, <<>>, "Err")
           [] OTHER -> SendError(raw.id, METHOD_NOT_FOUND,
                                 <<"Method", raw.method, "not found">>)

(***************************************************************************)
(* Server: the session loop (server/session.rs)                            *)
(***************************************************************************)

\* No Ok(None) or Err has been received yet.
NoDrain == [outbox |-> <<>>, sent |-> -1, dispatched |-> -1]

ServerInit ==
    /\ server \in Registries
    /\ is_initialized = FALSE
    /\ server_incoming = NoFrame
    /\ inbound_count = 0
    /\ notification_queue = <<>>
    /\ server_sent = <<>>
    /\ server_loop = "running"
    /\ dispatched = <<>>
    /\ server_step = "started"
    /\ handle_sends = <<>>
    /\ drain = NoDrain
    /\ in_progress = <<>>

\* The peer (or the transport) makes the next frame ready.
ClientSends(raw) ==
    /\ server_loop = "running"
    /\ server_incoming = NoFrame
    /\ inbound_count < MaxInbound
    /\ server_incoming' = raw
    /\ inbound_count' = inbound_count + 1
    /\ UNCHANGED <<server, is_initialized, notification_queue, server_sent,
                   server_loop, dispatched, server_step, handle_sends, drain>>
    /\ UNCHANGED in_progress
    /\ UNCHANGED clientVars
    /\ UNCHANGED libVars

\* The transport of the server has the next frame of the peer ready, whether
\* or not anything still reads from it.
FrameArrivesAtServer(raw) ==
    /\ server_incoming = NoFrame
    /\ inbound_count < MaxInbound
    /\ server_incoming' = raw
    /\ inbound_count' = inbound_count + 1
    /\ UNCHANGED <<server, is_initialized, notification_queue, server_sent,
                   server_loop, dispatched, server_step, handle_sends, drain>>
    /\ UNCHANGED in_progress
    /\ UNCHANGED clientVars
    /\ UNCHANGED libVars

\* The recv_message branch of the select in ServerSession::run with
\* Ok(Some(msg)): the frame is dispatched; an Err of dispatch_request is
\* logged and the loop goes on. The record appended to dispatched keeps, with
\* the frame, what the user handler returned if one was invoked.
ServeMessage(h, write_ok) ==
    /\ server_loop = "running"
    /\ in_progress = <<>>
    /\ server_incoming.io = "msg"
    /\ LET raw == server_incoming
           r == DispatchRequest(raw, is_initialized, server, h, write_ok)
       IN /\ is_initialized' = r.is_initialized
          /\ server_sent' = server_sent \o r.sent
          /\ notification_queue' = notification_queue \o r.queued
          /\ dispatched' = Append(dispatched,
                                  [raw |-> raw, frame |-> inbound_count,
                                   was_initialized |-> is_initialized,
                                   ret |-> r.ret, invoked |-> r.invoked,
                                   handler |-> IF r.invoked = <<>> THEN "none" ELSE h.res,
                                   sent |-> r.sent])
          /\ server_step' = IF r.ret = "Ok" THEN "dispatched" ELSE "dispatch_error_logged"
    /\ server_incoming' = NoFrame
    /\ UNCHANGED <<server, inbound_count, server_loop, handle_sends, drain>>
    /\ UNCHANGED in_progress
    /\ UNCHANGED clientVars
    /\ UNCHANGED libVars

\* The recv_message branch returning at once, the outbox discarded.
CloseOutbox_Returns ==
    /\ server_loop = "running"
    /\ in_progress = <<>>
    /\ RecvOutcome(server_incoming.io) \in {"Ok(None)", "Err"}
    /\ drain' = [outbox |-> notification_queue, sent |-> Len(server_sent),
                 dispatched |-> Len(dispatched)]
    /\ server_loop' = "returned_ok"
    /\ notification_queue' = <<>>
    /\ server_incoming' = NoFrame
    /\ server_step' = "outbox_closed"
    /\ UNCHANGED <<server, is_initialized, inbound_count, server_sent, dispatched,
                   handle_sends>>
    /\ UNCHANGED in_progress
    /\ UNCHANGED clientVars
    /\ UNCHANGED libVars

\* The recv_message branch with Ok(None) or Err: notification_rx.close()
\* closes the outbox, so that no handle can add to it any more.
CloseOutbox ==
    /\ server_loop = "running"
    /\ in_progress = <<>>
    /\ RecvOutcome(server_incoming.io) \in {"Ok(None)", "Err"}
    /\ drain' = [outbox |-> notification_queue, sent |-> Len(server_sent),
                 dispatched |-> Len(dispatched)]
    /\ server_loop' = "draining"
    /\ server_incoming' = NoFrame
    /\ server_step' = "outbox_closed"
    /\ UNCHANGED <<server, is_initialized, inbound_count, notification_queue,
                   server_sent, dispatched, handle_sends>>
    /\ UNCHANGED in_progress
    /\ UNCHANGED clientVars
    /\ UNCHANGED libVars

\* One turn of `while let Some(notif_json) = notification_rx.recv().await`:
\* the oldest notification is written with send_raw; a failing write returns
\* the error from run (and drops the receiver with what it still holds).
DrainWrite(write_ok) ==
    /\ server_loop = "draining"
    /\ notification_queue # <<>>
    /\ server_sent' = Append(server_sent, Head(notification_queue))
    /\ IF write_ok
       THEN /\ notification_queue' = Tail(notification_queue)
            /\ server_loop' = "draining"
       ELSE /\ notification_queue' = <<>>
            /\ server_loop' = "returned_err"
    /\ server_step' = "drain_write"
    /\ UNCHANGED <<server, is_initialized, server_incoming, inbound_count, dispatched,
                   handle_sends, drain>>
    /\ UNCHANGED in_progress
    /\ UNCHANGED clientVars
    /\ UNCHANGED libVars

\* recv() on the closed, empty outbox yields None: return Ok(()).
DrainReturn ==
    /\ server_loop = "draining"
    /\ notification_queue = <<>>
    /\ server_loop' = "returned_ok"
    /\ server_step' = "drained"
    /\ UNCHANGED <<server, is_initialized, server_incoming, inbound_count,
                   notification_queue, server_sent, dispatched, handle_sends, drain>>
    /\ UNCHANGED in_progress
    /\ UNCHANGED clientVars
    /\ UNCHANGED libVars

\* send_notification putting the message into the outbox whatever the state
\* of the receiver.
SendNotification_IgnoresClose ==
    /\ \E k \in DOMAIN dispatched : dispatched[k].invoked # <<>>
    /\ Len(handle_sends) < MaxHandleSends
    /\ Len(notification_queue) < QueueCapacity
    /\ notification_queue' =
           Append(notification_queue, NotificationMsg("notifications/tools/list_changed"))
    /\ handle_sends' = Append(handle_sends, [at |-> server_loop, res |-> "Ok"])
    /\ UNCHANGED <<server, is_initialized, server_incoming, inbound_count, server_sent,
                   server_loop, dispatched, server_step, drain>>
    /\ UNCHANGED in_progress
    /\ UNCHANGED clientVars
    /\ UNCHANGED libVars

\* ConnectionHandle::send_notification on a handle (or a clone of one) that
\* user code kept from a handler invocation, called from any task:
\* notification_sender.send(json).await? waits for room while the receiver is
\* open, and fails with SendError, converted to ChannelClosed, once the
\* receiver is closed or dropped.
SendNotification ==
    /\ \E k \in DOMAIN dispatched : dispatched[k].invoked # <<>>
    /\ Len(handle_sends) < MaxHandleSends
    /\ IF server_loop = "running"
       THEN /\ Len(notification_queue) < QueueCapacity
            /\ notification_queue' =
                   Append(notification_queue,
                          NotificationMsg("notifications/tools/list_changed"))
            /\ handle_sends' = Append(handle_sends, [at |-> server_loop, res |-> "Ok"])
       ELSE /\ handle_sends' =
                   Append(handle_sends, [at |-> server_loop, res |-> "ChannelClosed"])
            /\ UNCHANGED notification_queue
    /\ UNCHANGED <<server, is_initialized, server_incoming, inbound_count, server_sent,
                   server_loop, dispatched, server_step, drain>>
    /\ UNCHANGED in_progress
    /\ UNCHANGED clientVars
    /\ UNCHANGED libVars

\* The notification_rx branch of the select: one notification of the outbox
\* is written with send_raw; a failing write returns the error from run.
WriteNotification(write_ok) ==
    /\ server_loop = "running"
    /\ in_progress = <<>>
    /\ notification_queue # <<>>
    /\ server_sent' = Append(server_sent, Head(notification_queue))
    /\ IF write_ok
       THEN /\ notification_queue' = Tail(notification_queue)
            /\ server_loop' = "running"
       ELSE /\ notification_queue' = <<>>
            /\ server_loop' = "returned_err"
    /\ server_step' = "notification_written"
    /\ UNCHANGED <<server, is_initialized, server_incoming, inbound_count, dispatched,
                   handle_sends, drain>>
    /\ UNCHANGED in_progress
    /\ UNCHANGED clientVars
    /\ UNCHANGED libVars

ServerNext ==
    \/ \E raw \in ServerInbound : ClientSends(raw)
    \/ \E h \in HandlerOutcomes, write_ok \in BOOLEAN : ServeMessage(h, write_ok)
    \/ CloseOutbox
    \/ \E write_ok \in BOOLEAN : DrainWrite(write_ok)
    \/ DrainReturn
    \/ SendNotification
    \/ \E write_ok \in BOOLEAN : WriteNotification(write_ok)

\* ---------------------------------------------------------------------------
\* A tools/call whose handler runs in steps: `handler(handle.clone(),
\* args).await?` inside dispatch_request, itself awaited by the select branch
\* of run.

\* The most notifications one handler invocation sends before it returns.
MaxProgress == 33
ProgressCounts == {0, 1, MaxProgress}

\* The n-th notification the handler of the call read as frame number `call`
\* sends on its handle.
ProgressNotification(call, n) ==
    [kind |-> "notification", id |-> NoId,
     result |-> <<"Notification", "notifications/progress", call, n>>, code |-> 0,
     message |-> <<>>]

\* The frame takes dispatch_request to the tools/call arm and to a registered
\* tool whose user handler is called.
InvokesToolHandler(raw, init, srv) ==
    /\ raw.io = "msg"
    /\ init
    /\ ParsesAsRequestValue(raw)
    /\ raw.method = "tools/call"
    /\ CallTool(raw, srv, [res |-> "ok", notifies |-> FALSE]).invoked # <<>>

\* A handler invocation: the request, the number of the frame that carried
\* it, the notifications the handler will send and those it has sent.
Invocation(raw, call, want) == [raw |-> raw, call |-> call, want |-> want, queued |-> 0]

\* A dispatch that spawns the handler and lets the loop go on reading.
BeginToolCall_Spawned(want) ==
    /\ server_loop = "running"
    /\ InvokesToolHandler(server_incoming, is_initialized, server)
    /\ in_progress' = Append(in_progress, Invocation(server_incoming, inbound_count, want))
    /\ server_incoming' = NoFrame
    /\ server_step' = "handler_running"
    /\ UNCHANGED <<server, is_initialized, inbound_count, notification_queue, server_sent,
                   server_loop, dispatched, handle_sends, drain>>
    /\ UNCHANGED clientVars
    /\ UNCHANGED libVars

\* The recv_message branch with a tools/call for a registered tool: the loop
\* enters dispatch_request and awaits the handler there.
BeginToolCall(want) ==
    /\ server_loop = "running"
    /\ in_progress = <<>>
    /\ InvokesToolHandler(server_incoming, is_initialized, server)
    /\ in_progress' = Append(in_progress, Invocation(server_incoming, inbound_count, want))
    /\ server_incoming' = NoFrame
    /\ server_step' = "handler_running"
    /\ UNCHANGED <<server, is_initialized, inbound_count, notification_queue, server_sent,
                   server_loop, dispatched, handle_sends, drain>>
    /\ UNCHANGED clientVars
    /\ UNCHANGED libVars

\* send_notification on a channel without a capacity.
HandlerSendsNotification_Unbounded(i) ==
    /\ i \in DOMAIN in_progress
    /\ in_progress[i].queued < in_progress[i].want
    /\ notification_queue' =
           Append(notification_queue,
                  ProgressNotification(in_progress[i].call, in_progress[i].queued + 1))
    /\ in_progress' = [in_progress EXCEPT ![i].queued = @ + 1]
    /\ UNCHANGED <<server, is_initialized, server_incoming, inbound_count, server_sent,
                   server_loop, dispatched, server_step, handle_sends, drain>>
    /\ UNCHANGED clientVars
    /\ UNCHANGED libVars

\* The running handler awaits handle.send_notification(..): the message goes
\* into the outbox when there is room; with the outbox full the send waits.
HandlerSendsNotification(i) ==
    /\ i \in DOMAIN in_progress
    /\ in_progress[i].queued < in_progress[i].want
    /\ Len(notification_queue) < QueueCapacity
    /\ notification_queue' =
           Append(notification_queue,
                  ProgressNotification(in_progress[i].call, in_progress[i].queued + 1))
    /\ in_progress' = [in_progress EXCEPT ![i].queued = @ + 1]
    /\ UNCHANGED <<server, is_initialized, server_incoming, inbound_count, server_sent,
                   server_loop, dispatched, server_step, handle_sends, drain>>
    /\ UNCHANGED clientVars
    /\ UNCHANGED libVars

\* The handler returns: Ok(result) is written as the response with
\* send_serializable, Err leaves dispatch_request through `?` and is logged by
\* run; the loop is back at the select.
HandlerReturns(i, res) ==
    /\ i \in DOMAIN in_progress
    /\ in_progress[i].queued = in_progress[i].want
    /\ LET inv == in_progress[i]
           r == CallTool(inv.raw, server, [res |-> res, notifies |-> FALSE])
       IN /\ server_sent' = server_sent \o r.sent
          /\ dispatched' = Append(dispatched,
                                  [raw |-> inv.raw, frame |-> inv.call,
                                   was_initialized |-> TRUE,
                                   ret |-> r.ret, invoked |-> r.invoked,
                                   handler |-> res, sent |-> r.sent])
          /\ server_step' = IF r.ret = "Ok" THEN "dispatched" ELSE "dispatch_error_logged"
    /\ in_progress' = [k \in 1..(Len(in_progress) - 1) |->
                          IF k < i THEN in_progress[k] ELSE in_progress[k + 1]]
    /\ UNCHANGED <<server, is_initialized, server_incoming, inbound_count,
                   notification_queue, server_loop, handle_sends, drain>>
    /\ UNCHANGED clientVars
    /\ UNCHANGED libVars

\* Every other frame is dispatched in one step.
ServeOther(h, write_ok) ==
    /\ ~InvokesToolHandler(server_incoming, is_initialized, server)
    /\ ServeMessage(h, write_ok)

\* A peer that shakes hands, calls a tool under two identifiers, sends
\* requests and notifications in and out of turn, sends a blank frame and
\* closes.
HandlerInbound ==
    {RequestFrame(Num(0), "initialize", "valid", "-"),
     RequestFrame(Num(1), "tools/call", "valid", "echo"),
     RequestFrame(Str(1), "tools/call", "valid", "echo"),
     RequestFrame(Num(1), "tools/list", "valid", "-"),
     RequestFrame(NoId, "notifications/initialized", "valid", "-"),
     RequestFrame(NoId, "notifications/other", "absent", "-"),
     RequestFrame(NoId, "initialize", "valid", "-"),
     PeerClosed, BlankFrame}

HandlerNext ==
    \/ \E raw \in HandlerInbound : ClientSends(raw)
    \/ \E want \in ProgressCounts : BeginToolCall(want)
    \/ \E i \in DOMAIN in_progress : HandlerSendsNotification(i)
    \/ \E i \in DOMAIN in_progress, res \in {"ok", "err"} : HandlerReturns(i, res)
    \/ \E h \in HandlerOutcomes, write_ok \in BOOLEAN : ServeOther(h, write_ok)
    \/ CloseOutbox
    \/ \E write_ok \in BOOLEAN : DrainWrite(write_ok)
    \/ DrainReturn
    \/ \E write_ok \in BOOLEAN : WriteNotification(write_ok)

\* ---------------------------------------------------------------------------
\* ClientSessionGroup: a map from a key to a shared client, behind an RwLock.

\* The clients a program makes and hands to the group; the keys it uses.
MaxClients == 3
Keys == {"a", "b"}
NoClient == 0

\* What tools/list returns on the session of client c when the call succeeds:
\* the tools of the server c is connected to.
ToolsOf(c) == [i \in 1..((c % 2) + 1) |-> [server |-> c, n |-> i]]

NoCall == [ret |-> "-", tools |-> <<>>, order |-> <<>>, outcome |-> [k \in {} |-> "-"]]

\* ClientSessionGroup::new: an empty map; no call has been made.
GroupIdle ==
    [sessions |-> [k \in Keys |-> NoClient],   \* key -> the client stored under it
     made |-> 0,                               \* clients constructed so far
     loops |-> {},                             \* clients whose session loop runs
     dropped |-> {},                           \* clients whose Drop has run
     lock |-> "free",                          \* the RwLock: "free" or "read"
     join_handles |-> <<>>,                    \* keys of the spawned tasks, in spawn order
     task |-> [k \in {} |-> "-"],              \* key -> "running", "ok" or "err"
     op |-> "new", key |-> "-",                \* the last call made and its key
     removed |-> {},                           \* clients taken out by remove_client
     last |-> NoCall]                          \* what the last list_tools_all returned

GroupInit == group = GroupIdle

\* Dropping the last Arc<Client> runs Drop for Client, which aborts the loop.
DropArc(g, c) ==
    IF c = NoClient THEN g
    ELSE [g EXCEPT !.dropped = @ \cup {c}, !.loops = @ \ {c}]

\* remove_client that takes the entry out of the map and keeps the client.
RemoveFromMap_Leaks(g, key) ==
    [g EXCEPT !.sessions[key] = NoClient]

\* sessions.remove(addr): the entry leaves the map and its Arc is dropped.
RemoveFromMap(g, key) ==
    DropArc([g EXCEPT !.sessions[key] = NoClient], g.sessions[key])

\* add_client inserting without waiting for the write lock.
AddClient_NoLock(key) ==
    /\ group.made < MaxClients
    /\ LET c == group.made + 1
           g == DropArc(group, group.sessions[key])
       IN group' = [g EXCEPT !.sessions[key] = c, !.made = c, !.loops = @ \cup {c},
                             !.op = "add_client", !.key = key]
    /\ UNCHANGED <<codec, derive>>
    /\ UNCHANGED clientVars
    /\ UNCHANGED serverVars

\* add_client(id, client): sessions.write().await, granted once no read guard
\* is held; then a connected client is moved into the map under id,
\* replacing (and dropping) whatever was stored there.
AddClient(key) ==
    /\ group.lock = "free"
    /\ group.made < MaxClients
    /\ LET c == group.made + 1
           g == DropArc(group, group.sessions[key])
       IN group' = [g EXCEPT !.sessions[key] = c, !.made = c, !.loops = @ \cup {c},
                             !.op = "add_client", !.key = key]
    /\ UNCHANGED <<codec, derive>>
    /\ UNCHANGED clientVars
    /\ UNCHANGED serverVars

\* remove_client(addr): the write lock, then sessions.remove(addr).
RemoveClient(key) ==
    /\ group.lock = "free"
    /\ group' = [RemoveFromMap(group, key) EXCEPT
                     !.op = "remove_client", !.key = key,
                     !.removed = @ \cup ({group.sessions[key]} \ {NoClient})]
    /\ UNCHANGED <<codec, derive>>
    /\ UNCHANGED clientVars
    /\ UNCHANGED serverVars

RECURSIVE Orders(_)
\* The orders in which HashMap::values can yield the entries under the keys ks.
Orders(ks) ==
    IF ks = {} THEN {<<>>}
    ELSE UNION {{<<k>> \o o : o \in Orders(ks \ {k})} : k \in ks}

\* list_tools_all up to its first await on a join handle: the read lock is
\* taken and one task calling list_tools is spawned per stored client.
ListToolsAllSpawn ==
    /\ group.lock = "free"
    /\ \E order \in Orders({k \in Keys : group.sessions[k] # NoClient}) :
           group' = [group EXCEPT !.lock = "read", !.join_handles = order,
                                  !.task = [k \in {order[i] : i \in DOMAIN order} |-> "running"],
                                  !.op = "list_tools_all", !.key = "-",
                                  !.last = NoCall]
    /\ UNCHANGED <<codec, derive>>
    /\ UNCHANGED clientVars
    /\ UNCHANGED serverVars

\* A spawned task: client_clone.list_tools().await returns Ok or Err.
ListToolsTask(key, ok) ==
    /\ key \in DOMAIN group.task
    /\ group.task[key] = "running"
    /\ group' = [group EXCEPT !.task[key] = IF ok THEN "ok" ELSE "err"]
    /\ UNCHANGED <<codec, derive>>
    /\ UNCHANGED clientVars
    /\ UNCHANGED serverVars

RECURSIVE JoinAll(_, _, _)
\* The join loop: each handle in spawn order; Ok(tools) extends all_tools,
\* Err is logged.
JoinAll(handles, g, all_tools) ==
    IF handles = <<>> THEN all_tools
    ELSE JoinAll(Tail(handles), g,
                 IF g.task[Head(handles)] = "ok"
                 THEN all_tools \o ToolsOf(g.sessions[Head(handles)])
                 ELSE all_tools)

\* The join loop giving up on the first Err.
ListToolsAllResult_Propagates(g) ==
    IF \E k \in DOMAIN g.task : g.task[k] = "err"
    THEN [ret |-> "Err", tools |-> <<>>, order |-> g.join_handles, outcome |-> g.task]
    ELSE [ret |-> "Ok", tools |-> JoinAll(g.join_handles, g, <<>>),
          order |-> g.join_handles, outcome |-> g.task]

\* What list_tools_all returns once every task has finished: Ok(all_tools).
ListToolsAllResult(g) ==
    [ret |-> "Ok", tools |-> JoinAll(g.join_handles, g, <<>>),
     order |-> g.join_handles, outcome |-> g.task]

\* list_tools_all from its join loop to its return; the read guard is released.
ListToolsAllReturn ==
    /\ group.lock = "read"
    /\ \A k \in DOMAIN group.task : group.task[k] # "running"
    /\ group' = [group EXCEPT !.lock = "free", !.last = ListToolsAllResult(group),
                              !.join_handles = <<>>, !.task = [k \in {} |-> "-"],
                              !.op = "list_tools_all_returned"]
    /\ UNCHANGED <<codec, derive>>
    /\ UNCHANGED clientVars
    /\ UNCHANGED serverVars

GroupNext ==
    \/ \E key \in Keys : AddClient(key)
    \/ \E key \in Keys : RemoveClient(key)
    \/ ListToolsAllSpawn
    \/ \E key \in Keys, ok \in BOOLEAN : ListToolsTask(key, ok)
    \/ ListToolsAllReturn

\* ---------------------------------------------------------------------------
\* ProtocolConnection over an in-memory adapter: typed records out, typed
\* records in (protocol.rs, types.rs).

\* Messages an adapter holds between a send and the matching recv.
MaxBuffered == 1

\* serde_json::Value on the Rust side: Value::Null and an object.
VNull == [value |-> "Null"]
VObject == [value |-> "Object"]
\* Option<T>.
None == [opt |-> "None"]
Some(x) == [opt |-> "Some", val |-> x]

\* A JSON text, written as the value it denotes; JAbsent marks a member
\* that the object does not have.
JAbsent == [j |-> "absent"]
JNull == [j |-> "null"]
JObject == [j |-> "object"]
JString(x) == [j |-> "string", s |-> x]
JNumber(n) == [j |-> "number", n |-> n]
JError(e) == [j |-> "error", code |-> e.code, message |-> e.message]

JsonObject(jsonrpc, id, method, params, result, error) ==
    [jsonrpc |-> jsonrpc, id |-> id, method |-> method, params |-> params,
     result |-> result, error |-> error]

\* The four envelopes of types.rs, each with T = serde_json::Value.
Request(jsonrpc, id, method, params) ==
    [ty |-> "Request", jsonrpc |-> jsonrpc, id |-> id, method |-> method, params |-> params]
Response(jsonrpc, id, result) ==
    [ty |-> "Response", jsonrpc |-> jsonrpc, id |-> id, result |-> result]
ErrorResponse(jsonrpc, id, error) ==
    [ty |-> "ErrorResponse", jsonrpc |-> jsonrpc, id |-> id, error |-> error]
Notification(jsonrpc, method, params) ==
    [ty |-> "Notification", jsonrpc |-> jsonrpc, method |-> method, params |-> params]

\* JSONRPCResponse<T>: Success(Response<T>) or Error(ErrorResponse).
JSONRPCResponse(variant, inner) ==
    [ty |-> "JSONRPCResponse", variant |-> variant, inner |-> inner]

\* What deserialising gives when serde_json::from_str fails.
DeserializeError == [ty |-> "Err(Json)"]

CodecIds == {Num(1), Str(1)}
Envelopes ==
    {Request("2.0", id, "tools/list", p) : id \in CodecIds, p \in {VNull, VObject}}
    \cup {Request("1.0", Num(1), "tools/list", VObject)}
    \cup {Response("2.0", id, r) : id \in CodecIds, r \in {VNull, VObject}}
    \cup {ErrorResponse("2.0", id, e) : id \in CodecIds, e \in ErrorDatas}
    \cup {Notification("2.0", "notifications/tools/list_changed", p) :
              p \in {None, Some(VNull), Some(VObject)}}
Records ==
    Envelopes
    \cup {JSONRPCResponse("Success", r) : r \in {e \in Envelopes : e.ty = "Response"}}
    \cup {JSONRPCResponse("Error", r) : r \in {e \in Envelopes : e.ty = "ErrorResponse"}}

\* The types recv_message::<T> is asked for.
ReadTypes == {"Request", "Response", "ErrorResponse", "Notification", "JSONRPCResponse"}

\* Serialize for serde_json::Value and for RequestId (untagged: the payload
\* alone, a number or a string).
SerializeValue(v) == IF v = VNull THEN JNull ELSE JObject
SerializeId(id) == IF id.t = "Num" THEN JNumber(id.v) ELSE JString(id.v)

\* The derived Serialize of each envelope: Notification leaves "params" out
\* when it is None.
SerializeEnvelope(msg) ==
    CASE msg.ty = "Request" ->
             JsonObject(JString(msg.jsonrpc), SerializeId(msg.id), JString(msg.method),
                        SerializeValue(msg.params), JAbsent, JAbsent)
      [] msg.ty = "Response" ->
             JsonObject(JString(msg.jsonrpc), SerializeId(msg.id), JAbsent, JAbsent,
                        SerializeValue(msg.result), JAbsent)
      [] msg.ty = "ErrorResponse" ->
             JsonObject(JString(msg.jsonrpc), SerializeId(msg.id), JAbsent, JAbsent,
                        JAbsent, JError(msg.error))
      [] msg.ty = "Notification" ->
             JsonObject(JString(msg.jsonrpc), JAbsent, JString(msg.method),
                        IF msg.params = None THEN JAbsent
                        ELSE SerializeValue(msg.params.val),
                        JAbsent, JAbsent)

\* serde_json::to_value(&msg); an untagged enum is written as its payload.
Serialize(msg) ==
    IF msg.ty = "JSONRPCResponse" THEN SerializeEnvelope(msg.inner)
    ELSE SerializeEnvelope(msg)

\* Deserialize for RequestId that also takes a string of digits for a number.
DeserializeId_Lenient(j) ==
    CASE j.j = "number" -> Num(j.n)
      [] j.j = "string" -> Num(j.s)
      [] OTHER -> BadId

\* Deserialize for RequestId, untagged: Num from a number, else Str from a
\* string, else an error.
DeserializeId(j) ==
    CASE j.j = "number" -> Num(j.n)
      [] j.j = "string" -> Str(j.s)
      [] OTHER -> BadId

\* Deserialize for serde_json::Value from a member that is present.
DeserializeValue(j) == IF j = JNull THEN VNull ELSE VObject

\* Deserialize for Option<Value> with #[serde(default)]: a missing member
\* and a null are both None.
DeserializeOption(j) ==
    IF j = JAbsent \/ j = JNull THEN None ELSE Some(DeserializeValue(j))

\* The derived Deserialize of each envelope: every member without a default
\* must be there and of its type; members the struct does not have are
\* ignored.
DeserializeEnvelope(ty, o) ==
    CASE ty = "Request" ->
             IF /\ o.jsonrpc.j = "string"
                /\ IsRequestId(DeserializeId(o.id))
                /\ o.method.j = "string"
                /\ o.params # JAbsent
             THEN Request(o.jsonrpc.s, DeserializeId(o.id), o.method.s,
                          DeserializeValue(o.params))
             ELSE DeserializeError
      [] ty = "Response" ->
             IF /\ o.jsonrpc.j = "string"
                /\ IsRequestId(DeserializeId(o.id))
                /\ o.result # JAbsent
             THEN Response(o.jsonrpc.s, DeserializeId(o.id), DeserializeValue(o.result))
             ELSE DeserializeError
      [] ty = "ErrorResponse" ->
             IF /\ o.jsonrpc.j = "string"
                /\ IsRequestId(DeserializeId(o.id))
                /\ o.error.j = "error"
             THEN ErrorResponse(o.jsonrpc.s, DeserializeId(o.id),
                                [code |-> o.error.code, message |-> o.error.message])
             ELSE DeserializeError
      [] ty = "Notification" ->
             IF /\ o.jsonrpc.j = "string"
                /\ o.method.j = "string"
             THEN Notification(o.jsonrpc.s, o.method.s, DeserializeOption(o.params))
             ELSE DeserializeError

\* serde_json::from_str::<T>; the untagged JSONRPCResponse tries Success,
\* then Error.
Deserialize(ty, o) ==
    IF ty # "JSONRPCResponse" THEN DeserializeEnvelope(ty, o)
    ELSE IF DeserializeEnvelope("Response", o) # DeserializeError
    THEN JSONRPCResponse("Success", DeserializeEnvelope("Response", o))
    ELSE IF DeserializeEnvelope("ErrorResponse", o) # DeserializeError
    THEN JSONRPCResponse("Error", DeserializeEnvelope("ErrorResponse", o))
    ELSE DeserializeError

NothingRead == [op |-> "-", ret |-> "-", msg |-> DeserializeError, ty |-> "-",
                got |-> DeserializeError]

\* ProtocolConnection::new over an adapter with nothing buffered.
CodecIdle == [buffer |-> <<>>,   \* the JSON texts the adapter holds, oldest first
              sent |-> <<>>,     \* the record each of them was made from
              last |-> NothingRead]

CodecInit == codec = CodecIdle

\* send_serializable(msg): to_value, the schema check of builds with the
\* schema-validation feature (passed is its verdict; builds without the
\* feature always pass), to_string, adapter.send.
SendSerializable(msg, passed) ==
    /\ Len(codec.buffer) < MaxBuffered
    /\ IF passed
       THEN codec' = [codec EXCEPT !.buffer = Append(@, Serialize(msg)),
                                   !.sent = Append(@, msg),
                                   !.last = [NothingRead EXCEPT !.op = "send_serializable",
                                                                !.ret = "Ok(())",
                                                                !.msg = msg]]
       ELSE codec' = [codec EXCEPT !.last = [NothingRead EXCEPT !.op = "send_serializable",
                                                                !.ret = "Err",
                                                                !.msg = msg]]
    /\ UNCHANGED <<group, derive>>
    /\ UNCHANGED clientVars
    /\ UNCHANGED serverVars

\* recv_message::<T>() with a text waiting: adapter.recv, from_str::<T>.
RecvMessageAs(ty) ==
    /\ codec.buffer # <<>>
    /\ LET got == Deserialize(ty, Head(codec.buffer))
       IN codec' = [buffer |-> Tail(codec.buffer),
                    sent |-> Tail(codec.sent),
                    last |-> [op |-> "recv_message",
                              ret |-> IF got = DeserializeError THEN "Err" ELSE "Ok(Some)",
                              msg |-> Head(codec.sent), ty |-> ty, got |-> got]]
    /\ UNCHANGED <<group, derive>>
    /\ UNCHANGED clientVars
    /\ UNCHANGED serverVars

\* recv_message::<T>() on an adapter that reports the end of the stream.
RecvClosed ==
    /\ codec.buffer = <<>>
    /\ codec.last.op # "recv_message" \/ codec.last.ret # "Ok(None)"
    /\ codec' = [codec EXCEPT !.last = [NothingRead EXCEPT !.op = "recv_message",
                                                           !.ret = "Ok(None)"]]
    /\ UNCHANGED <<group, derive>>
    /\ UNCHANGED clientVars
    /\ UNCHANGED serverVars

CodecNext ==
    \/ \E msg \in Records, passed \in BOOLEAN : SendSerializable(msg, passed)
    \/ \E ty \in ReadTypes : RecvMessageAs(ty)
    \/ RecvClosed

\* ---------------------------------------------------------------------------
\* #[derive(ToolArguments)]: the input schema generated for a struct with
\* named fields (mcp_sdk_macros/src/lib.rs).

\* Fields of the structs the derive is applied to.
MaxFields == 2

\* A field type: a one-segment path with at most one generic argument.
NoArg == [path |-> "-"]
Ty(path) == [path |-> path, arg |-> NoArg]
Generic(path, arg) == [path |-> path, arg |-> arg]
FieldTypes == {Ty("String"), Generic("Option", Ty("String")),
               Generic("Option", Generic("Option", Ty("i32")))}

\* The Rust name of the i-th field; field names of one struct differ.
FieldName(i) == <<"a", "b", "c", "d">>[i]

\* FieldArgs as parse_field_attributes leaves them, with the field's type.
Fields ==
    [rename : {None, Some("a"), Some("z")},
     skip : BOOLEAN,
     required : {None, Some(TRUE), Some(FALSE)},
     desc : {None, Some("text")},
     ty : FieldTypes]

\* is_option: a single path segment named Option.
IsOption(ty) == ty.path = "Option"

IntegerTypes == {"i8", "i16", "i32", "i64", "isize", "u8", "u16", "u32", "u64", "usize"}

NoItems == [type |-> "-"]
JsonSchema(type, items, description) ==
    [type |-> type, items |-> items, description |-> description]

RECURSIVE TypeToSchema(_)
\* type_to_schema: Option<T> has the schema of T.
TypeToSchema(ty) ==
    IF IsOption(ty)
    THEN (IF ty.arg # NoArg THEN TypeToSchema(ty.arg) ELSE JsonSchema("null", NoItems, "-"))
    ELSE IF ty.path = "String" THEN JsonSchema("string", NoItems, "-")
    ELSE IF ty.path \in IntegerTypes THEN JsonSchema("integer", NoItems, "-")
    ELSE IF ty.path \in {"f32", "f64"} THEN JsonSchema("number", NoItems, "-")
    ELSE IF ty.path = "bool" THEN JsonSchema("boolean", NoItems, "-")
    ELSE IF ty.path = "Vec" /\ ty.arg # NoArg
    THEN JsonSchema("array", TypeToSchema(ty.arg), "-")
    ELSE JsonSchema("compile_error", NoItems, "-")

\* property_schema_ts: the type's schema, with "description" when desc is given.
PropertySchema(field) ==
    IF field.desc # None
    THEN [TypeToSchema(field.ty) EXCEPT !.description = field.desc.val]
    ELSE TypeToSchema(field.ty)

\* actual_field_name_str: the rename, or else the Rust name.
ActualFieldName(fields, i) ==
    IF fields[i].rename # None THEN fields[i].rename.val ELSE FieldName(i)

\* is_field_required looking at the type alone.
IsFieldRequired_TypeOnly(field) == ~IsOption(field.ty)

\* is_field_required: the override, or else whether the type is not Option.
IsFieldRequired(field) ==
    IF field.required # None THEN field.required.val ELSE ~IsOption(field.ty)

\* The test that takes a field out of the schema, without looking at skip.
IsSkipped_Never(field) == FALSE

\* if field_attrs.skip { continue; }
IsSkipped(field) == field.skip

RECURSIVE PropertiesMapInserts(_, _)
\* properties_map_inserts: one map.insert(name, schema) per field that is
\* not skipped, in field order.
PropertiesMapInserts(fields, i) ==
    IF i > Len(fields) THEN <<>>
    ELSE IF IsSkipped(fields[i]) THEN PropertiesMapInserts(fields, i + 1)
    ELSE <<[key |-> ActualFieldName(fields, i), schema |-> PropertySchema(fields[i])]>>
         \o PropertiesMapInserts(fields, i + 1)

RECURSIVE RequiredFieldNames(_, _)
\* required_field_names: one push per required field, in field order.
RequiredFieldNames(fields, i) ==
    IF i > Len(fields) THEN <<>>
    ELSE IF IsSkipped(fields[i]) \/ ~IsFieldRequired(fields[i])
    THEN RequiredFieldNames(fields, i + 1)
    ELSE <<ActualFieldName(fields, i)>> \o RequiredFieldNames(fields, i + 1)

RECURSIVE RunInserts(_, _)
\* The generated map.insert calls run in order; an insert under a key that
\* is already there replaces its value.
RunInserts(inserts, map) ==
    IF inserts = <<>> THEN map
    ELSE RunInserts(Tail(inserts),
             [k \in DOMAIN map \cup {Head(inserts).key} |->
                 IF k = Head(inserts).key THEN Head(inserts).schema ELSE map[k]])

\* The body of the generated mcp_input_schema(): "type", "properties" and,
\* when required_arr is not empty, "required".
McpInputSchema(expanded) ==
    [type |-> "object",
     properties |-> RunInserts(expanded.properties_map_inserts, [k \in {} |-> "-"]),
     required |-> IF expanded.required_field_names # <<>>
                  THEN Some(expanded.required_field_names)
                  ELSE None]

NoSchema == [type |-> "-"]
DeriveIdle == [fields |-> <<>>, expanded |-> None, schema |-> NoSchema]

\* A struct with named fields, before the macro has run.
DeriveInit ==
    \E n \in 0..MaxFields :
        \E fields \in [1..n -> Fields] :
            derive = [fields |-> fields, expanded |-> None, schema |-> NoSchema]

\* tool_arguments_derive: the loop over the fields at compile time.
ToolArgumentsDerive ==
    /\ derive.expanded = None
    /\ derive' = [derive EXCEPT !.expanded =
                      Some([properties_map_inserts |-> PropertiesMapInserts(derive.fields, 1),
                            required_field_names |-> RequiredFieldNames(derive.fields, 1)])]
    /\ UNCHANGED <<group, codec>>
    /\ UNCHANGED clientVars
    /\ UNCHANGED serverVars

\* The first call of the generated mcp_input_schema() builds the schema.
CallMcpInputSchema ==
    /\ derive.expanded # None
    /\ derive.schema = NoSchema
    /\ derive' = [derive EXCEPT !.schema = McpInputSchema(derive.expanded.val)]
    /\ UNCHANGED <<group, codec>>
    /\ UNCHANGED clientVars
    /\ UNCHANGED serverVars

DeriveNext ==
    \/ ToolArgumentsDerive
    \/ CallMcpInputSchema

\* The library parts at rest while a session is looked at.
LibInit == group = GroupIdle /\ codec = CodecIdle /\ derive = DeriveIdle

\* A client session and its callers against an arbitrary peer; no server
\* session runs.
ClientSpecInit == ClientInit /\ ServerInit /\ server = Registry({}, {}, {}) /\ LibInit
ClientSpec == ClientSpecInit /\ [][ClientNext]_vars

\* A server session against an arbitrary peer; no client session runs.
ServerSpecInit == ServerInit /\ ClientInit /\ LibInit
ServerSpec == ServerSpecInit /\ [][ServerNext]_vars

\* A client whose notification handlers may never return.
RuntimeSpecInit == ClientSpecInit
RuntimeNext == LoopNext \/ HandlerNeverReturns
RuntimeSpec == RuntimeSpecInit /\ [][RuntimeNext]_vars

\* The client loop against a peer that sends notifications with and without
\* params and answers with integer and string identifiers.
LoopSpecInit == ClientSpecInit
LoopSpec == LoopSpecInit /\ [][LoopNext]_vars

\* A server session whose tool handlers run in steps and send notifications.
HandlerSpecInit ==
    /\ ServerInit /\ server = Registry({"echo", "typed_echo"}, {"typed_echo"}, NonToolMethods)
    /\ ClientInit /\ LibInit
HandlerSpec == HandlerSpecInit /\ [][HandlerNext]_vars

\* The same session on a runtime that keeps polling its tasks: a step the
\* session task or a handler can take is eventually taken. Nothing obliges
\* the peer to send.
SessionSteps ==
    \/ \E want \in ProgressCounts : BeginToolCall(want)
    \/ \E i \in DOMAIN in_progress : HandlerSendsNotification(i)
    \/ \E i \in DOMAIN in_progress, res \in {"ok", "err"} : HandlerReturns(i, res)
    \/ \E h \in HandlerOutcomes, write_ok \in BOOLEAN : ServeOther(h, write_ok)
    \/ CloseOutbox
    \/ \E write_ok \in BOOLEAN : DrainWrite(write_ok)
    \/ DrainReturn
    \/ \E write_ok \in BOOLEAN : WriteNotification(write_ok)
HandlerFairSpecInit == HandlerSpecInit
HandlerFairSpec == HandlerFairSpecInit /\ [][HandlerNext]_vars /\ WF_vars(SessionSteps)

\* A client session with one caller besides the handshake and a server
\* session, each against a peer that sends a blank frame in the middle of the
\* session and goes on sending after it.
BlankClientInbound ==
    {Frame("msg", Num(0), "-", "absent", "InitializeResult", NoError, TRUE), Blank}
BlankServerInbound ==
    {RequestFrame(Num(0), "initialize", "valid", "-"),
     RequestFrame(Num(1), "tools/call", "valid", "echo"),
     BlankFrame}
BlankClientNext ==
    \/ Len(calls) < 2 /\ NewRequestId
    \/ \E i \in DOMAIN calls : SendRequestWithId(i)
    \/ \E ok \in BOOLEAN : TakeRequest(ok)
    \/ RecvMessage
    \/ \E raw \in BlankClientInbound : FrameArrives(raw)
    \/ ClientNewReturns
BlankServerNext ==
    \/ \E raw \in BlankServerInbound : FrameArrivesAtServer(raw)
    \/ \E h \in HandlerOutcomes, write_ok \in BOOLEAN : ServeMessage(h, write_ok)
    \/ CloseOutbox
    \/ \E write_ok \in BOOLEAN : DrainWrite(write_ok)
    \/ DrainReturn
    \/ \E write_ok \in BOOLEAN : WriteNotification(write_ok)
BlankNext == BlankClientNext \/ BlankServerNext
BlankSpecInit == HandlerSpecInit
BlankSpec == BlankSpecInit /\ [][BlankNext]_vars

\* A client whose callers come in a burst, against a peer that answers the
\* handshake and nothing else.
QueueNext ==
    \/ BurstRequestId
    \/ \E i \in DOMAIN calls : SendRequestWithId(i)
    \/ \E ok \in BOOLEAN : TakeRequest(ok)
    \/ RecvMessage
    \/ PeerSends(Frame("msg", Num(0), "-", "absent", "InitializeResult", NoError, TRUE))
    \/ ClientNewReturns
QueueSpecInit == ClientSpecInit
QueueSpec == QueueSpecInit /\ [][QueueNext]_vars

\* A session group and the calls made on it.
GroupSpecInit ==
    /\ GroupInit /\ codec = CodecIdle /\ derive = DeriveIdle
    /\ ClientInit /\ ServerInit /\ server = Registry({}, {}, {})
GroupSpec == GroupSpecInit /\ [][GroupNext]_vars

\* Records sent and read back over one protocol connection.
CodecSpecInit ==
    /\ CodecInit /\ group = GroupIdle /\ derive = DeriveIdle
    /\ ClientInit /\ ServerInit /\ server = Registry({}, {}, {})
CodecSpec == CodecSpecInit /\ [][CodecNext]_vars

\* The derive applied to every struct of up to MaxFields fields.
DeriveSpecInit ==
    /\ DeriveInit /\ group = GroupIdle /\ codec = CodecIdle
    /\ ClientInit /\ ServerInit /\ server = Registry({}, {}, {})
DeriveSpec == DeriveSpecInit /\ [][DeriveNext]_vars

(***************************************************************************)
(* Properties of the client session                                        *)
(***************************************************************************)

\* The calls whose request the loop has taken from the work queue.
TakenCalls == {i \in DOMAIN calls : calls[i].st = "taken"}

\* Completed by a frame the loop received (as opposed to a dropped sender).
ByFrame(c) == c.reply.k \in {"ok", "peer_error", "deserialize_failed"}

\* What every taken call's slot satisfies whatever it was completed with: at
\* most one completion; while it is open the loop runs and holds its sender
\* under the call's identifier; a reply by a frame comes from a frame carrying
\* the call's identifier and the entry is gone from the pending map; a
\* channel-closed reply only once the loop has ended.
SlotConsistent(i) ==
    LET c == calls[i] IN
    /\ c.n <= 1
    /\ (c.reply = NoReply) <=> (c.n = 0)
    /\ c.n = 0 =>
          /\ client_loop = "running"
          /\ c.id \in DOMAIN pending_requests
          /\ pending_requests[c.id] = i
    /\ ByFrame(c) =>
          /\ c.by.id = c.id
          /\ \A id \in DOMAIN pending_requests : pending_requests[id] # i
    /\ c.reply.k = "ok" =>
          DeserializeResponse(c.by) = "Success" /\ c.reply.result = c.by.result
    /\ c.reply.k = "peer_error" =>
          DeserializeResponse(c.by) = "Error" /\ c.reply.error = c.by.error
    /\ c.reply.k = "deserialize_failed" => DeserializeResponse(c.by) = "Err"
    /\ c.reply.k = "channel_closed" => client_loop = "ended"

\* C1 as stated: the slot of every request the loop took from its queue is
\* completed at most once, and only with the result of the response carrying
\* its identifier, a peer error carrying that response's code and message, or
\* channel-closed once the session has ended; an unanswered one is still held
\* by the running loop, and a response removes the entry it completes.
C1_ThreeOutcomes ==
    \A i \in TakenCalls :
        /\ SlotConsistent(i)
        /\ calls[i].reply.k \in {"none", "ok", "peer_error", "channel_closed"}

\* C1 (amended): as C1, with a fourth outcome: a frame that carries the
\* request's identifier and deserialises neither as a success nor as an error
\* response completes the slot with a deserialisation failure. The slot is
\* still completed at most once and its entry removed from the pending map.
C1_ExactlyOneCompletion ==
    \A i \in TakenCalls :
        /\ SlotConsistent(i)
        /\ calls[i].reply.k \in
              {"none", "ok", "peer_error", "deserialize_failed", "channel_closed"}

\* Three taken requests, completed in three different ways.
C1_Witness ==
    /\ \E i \in TakenCalls : calls[i].reply.k = "ok"
    /\ \E i \in TakenCalls : calls[i].reply.k = "deserialize_failed"
    /\ \E i \in TakenCalls : calls[i].reply.k = "channel_closed"

\* The loop is about to receive a frame with an identifier that has no entry
\* in the pending map.
StrayResponseReady ==
    /\ client_loop = "running"
    /\ request_queue = <<>>
    /\ client_incoming.io = "msg"
    /\ client_incoming.id # NoId
    /\ client_incoming.id \notin DOMAIN pending_requests

\* C2: the step in which the client loop receives a stray response leaves the
\* pending map and every caller's reply slot as they were, and the loop
\* keeps running.
C2_StrayResponseDropped ==
    [][(StrayResponseReady /\ client_incoming' = Nothing) =>
          (/\ pending_requests' = pending_requests
           /\ calls' = calls
           /\ client_loop' = "running")]_vars

\* A stray response has just been dropped while another request is pending.
C2_Witness ==
    /\ client_step = "stray_response"
    /\ client_incoming = Nothing
    /\ client_loop = "running"
    /\ pending_requests # EmptyMap

\* C3: the initialize request carries Num(0), every later request an integer
\* identifier >= 1, and no two requests of the session carry the same
\* identifier, however the callers interleave.
C3_UniqueIds ==
    /\ calls[1].id = Num(0)
    /\ calls[1].method = "initialize"
    /\ \A i \in DOMAIN calls : i > 1 => (calls[i].id.t = "Num" /\ calls[i].id.v >= 1)
    /\ \A i, j \in DOMAIN calls : i # j => calls[i].id # calls[j].id
    /\ \A i, j \in DOMAIN client_sent : i # j => client_sent[i].id # client_sent[j].id

\* Two callers hold an identifier at the same time, neither has enqueued yet.
C3_Witness ==
    /\ Len(calls) >= 3
    /\ Cardinality({i \in DOMAIN calls : calls[i].st = "allocated"}) >= 2

\* C4 as stated: the identifiers of the requests handed to the transport are
\* strictly increasing in the order in which the loop hands them over.
C4_SentIdsIncreasing ==
    \A i, j \in DOMAIN client_sent :
        i < j => client_sent[i].id.v < client_sent[j].id.v

\* C6: Client::new has returned a handle only if the loop completed the
\* initialize call with a success response carrying identifier 0; until it
\* has, every request put on the transport is the initialize request.
C6_HandshakeFirst ==
    /\ client \in {"ready", "dropped"} =>
          /\ calls[1].reply.k = "ok"
          /\ calls[1].by.id = Num(0)
          /\ DeserializeResponse(calls[1].by) = "Success"
    /\ client \in {"connecting", "failed"} =>
          \A k \in DOMAIN client_sent :
              client_sent[k] = [id |-> Num(0), method |-> "initialize"]
    /\ client_sent # <<>> => client_sent[1].method = "initialize"

\* The handle exists and a request other than initialize is on the transport.
C6_Witness ==
    /\ client = "ready"
    /\ \E k \in DOMAIN client_sent : client_sent[k].method # "initialize"

\* C7 as stated: once Client::new has returned, it has returned an error if
\* the initialize response was an error response, if the first response
\* received carried an identifier other than 0, or if the transport closed
\* before a response arrived.
C7_NewFails ==
    client # "connecting" =>
        /\ calls[1].reply.k = "peer_error" => client = "failed"
        /\ first_response = "mismatch" => client = "failed"
        /\ calls[1].reply.k = "channel_closed" => client = "failed"

(***************************************************************************)
(* Properties of the server session                                        *)
(***************************************************************************)

IsResponse(m) == m.kind \in {"result", "error"}

RECURSIVE Flatten(_)
Flatten(ss) == IF ss = <<>> THEN <<>> ELSE Head(ss) \o Flatten(Tail(ss))

\* The responses on the transport are those the dispatches wrote, in order.
ResponsesWritten == SelectSeq(server_sent, IsResponse)
ResponsesOfDispatches == Flatten([k \in DOMAIN dispatched |-> dispatched[k].sent])

\* C5: every success or error response the session writes is written by the
\* dispatch of a request and carries that request's identifier, the
\* initialize response included; so every response identifier on the
\* transport was received in a request of the session.
C5_ResponseEchoesId ==
    /\ ResponsesWritten = ResponsesOfDispatches
    /\ \A k \in DOMAIN dispatched :
          \A j \in DOMAIN dispatched[k].sent :
              /\ IsResponse(dispatched[k].sent[j])
              /\ IsRequestId(dispatched[k].raw.id)
              /\ dispatched[k].raw.method # "-"
              /\ dispatched[k].sent[j].id = dispatched[k].raw.id
    /\ \A j \in DOMAIN server_sent :
          IsResponse(server_sent[j]) =>
              \E k \in DOMAIN dispatched : dispatched[k].raw.id = server_sent[j].id

\* A handshake answered under a string identifier and an error response
\* under an integer one are on the transport.
C5_Witness ==
    /\ \E j \in DOMAIN server_sent :
          server_sent[j].kind = "result" /\ server_sent[j].id = Str(1)
          /\ server_sent[j].result[1] = "InitializeResult"
    /\ \E j \in DOMAIN server_sent :
          server_sent[j].kind = "error" /\ server_sent[j].id = Num(1)

\* C8: a frame dispatched while the initialized flag is false whose method is
\* not initialize gets no response at all (so no success response and no tool
\* list) and no handler is invoked for it; while the flag is false the only
\* success response the session has written is an initialize result.
C8_NoServiceBeforeHandshake ==
    /\ \A k \in DOMAIN dispatched :
          (~dispatched[k].was_initialized /\ dispatched[k].raw.method # "initialize") =>
              /\ dispatched[k].sent = <<>>
              /\ dispatched[k].invoked = <<>>
    /\ ~is_initialized =>
          \A j \in DOMAIN server_sent :
              server_sent[j].kind = "result" => server_sent[j].result[1] = "InitializeResult"

\* The first inbound request was tools/list, on a server with a tool.
C8_Witness ==
    /\ Len(dispatched) >= 2
    /\ server.tools # {}
    /\ dispatched[1].raw = RequestFrame(Num(0), "tools/list", "valid", "-")
    /\ dispatched[2].raw.method = "tools/call"
    /\ ~is_initialized

\* The dispatches of an initialize request by an initialised session.
RepeatedInitialize ==
    {k \in DOMAIN dispatched :
        /\ dispatched[k].was_initialized
        /\ dispatched[k].raw.method = "initialize"
        /\ dispatched[k].raw.id # NoId}

\* C9 as stated: an initialize request received by an initialised session
\* is the last frame the session dispatches.
C9_RepeatedInitializeTerminates ==
    \A k \in RepeatedInitialize : k = Len(dispatched)

\* The part in a message format! produced.
ContainsNotFound(message) == \E i \in DOMAIN message : message[i] = "not found"

\* The dispatches, after the handshake, of a tools/call request whose params
\* name a tool that is not registered.
UnknownToolCalls ==
    {k \in DOMAIN dispatched :
        /\ dispatched[k].was_initialized
        /\ ParsesAsRequestOf(dispatched[k].raw)
        /\ dispatched[k].raw.method = "tools/call"
        /\ dispatched[k].raw.name \notin server.tools}

\* C10: after the handshake, the dispatch of a tools/call request naming an
\* unregistered tool writes exactly one message, an error response with the
\* request's identifier, code -32601 and a message containing "not found",
\* and invokes no handler.
C10_UnknownToolMethodNotFound ==
    /\ ResponsesWritten = ResponsesOfDispatches
    /\ \A k \in UnknownToolCalls :
          /\ Len(dispatched[k].sent) = 1
          /\ dispatched[k].sent[1].kind = "error"
          /\ dispatched[k].sent[1].id = dispatched[k].raw.id
          /\ dispatched[k].sent[1].code = -32601
          /\ ContainsNotFound(dispatched[k].sent[1].message)
          /\ dispatched[k].invoked = <<>>

\* An unknown tool was called on a server that has a tool registered.
C10_Witness ==
    /\ server.tools # {}
    /\ \E k \in UnknownToolCalls :
          /\ dispatched[k].raw.id = Str(1)
          /\ server_sent[Len(server_sent)] = dispatched[k].sent[1]

\* The dispatches, by an initialised session, of a frame that deserialises
\* as a request (jsonrpc, id, method and params present).
RequestsAfterHandshake ==
    {k \in DOMAIN dispatched :
        dispatched[k].was_initialized /\ ParsesAsRequestValue(dispatched[k].raw)}

\* The dispatch wrote exactly one message, an error response with the
\* request's identifier and the given code.
AnsweredWithError(d, code) ==
    /\ Len(d.sent) = 1
    /\ d.sent[1].kind = "error"
    /\ d.sent[1].id = d.raw.id
    /\ d.sent[1].code = code

\* The requests for a non-tool method that has no registered handler.
NoHandlerRequests ==
    {k \in RequestsAfterHandshake :
        /\ dispatched[k].raw.method \in NonToolMethods
        /\ dispatched[k].raw.method \notin server.handlers}

\* C11: after the handshake, a resources/list, resources/read, prompts/list
\* or prompts/get request for which no handler is registered is answered with
\* exactly one error response, code -32601, carrying the request's
\* identifier, whether or not its params fit the method; no handler runs.
C11_NoHandlerMethodNotFound ==
    \A k \in NoHandlerRequests :
        /\ AnsweredWithError(dispatched[k], -32601)
        /\ dispatched[k].invoked = <<>>

\* Two such requests were answered, one of them with params that do not fit
\* the method.
C11_Witness ==
    /\ \E k \in NoHandlerRequests :
          dispatched[k].raw.params = "invalid" /\ dispatched[k].sent # <<>>
    /\ \E k \in NoHandlerRequests :
          dispatched[k].raw.method = "prompts/get" /\ dispatched[k].sent # <<>>

\* C12 as stated: every dispatch in which a registered handler was invoked
\* and returned a failure, a tool handler as well as a resource or prompt
\* handler, writes one error response with code -32603, the request's
\* identifier and the handler's error message.
C12_HandlerFailureInternalError ==
    \A k \in DOMAIN dispatched :
        dispatched[k].handler = "err" =>
            /\ AnsweredWithError(dispatched[k], -32603)
            /\ dispatched[k].sent[1].message = <<"handler error">>

\* The requests whose params are present and do not deserialise into the
\* parameter record of their method, for tools/call and for the non-tool
\* methods with a registered handler.
InvalidParamsRequests ==
    {k \in RequestsAfterHandshake :
        /\ dispatched[k].raw.params = "invalid"
        /\ \/ dispatched[k].raw.method = "tools/call"
           \/ dispatched[k].raw.method \in server.handlers}

\* C13 as stated: every request whose params fail to deserialise into the
\* method's parameter record is answered with one error response with code
\* -32602 carrying the request's identifier.
C13_InvalidParamsAnswered ==
    \A k \in InvalidParamsRequests : AnsweredWithError(dispatched[k], -32602)

\* The dispatches of a message that has an id member.
RequestsReceived == {k \in DOMAIN dispatched : dispatched[k].raw.id # NoId}

\* C14 as stated: every message with an id the session has dispatched was
\* answered with exactly one response, and the responses on the transport
\* are as many as those messages once the session has returned.
C14_OneResponsePerRequest ==
    /\ \A k \in RequestsReceived :
          Len(dispatched[k].sent) = 1 /\ IsResponse(dispatched[k].sent[1])
    /\ server_loop # "running" =>
          Len(ResponsesWritten) = Cardinality(RequestsReceived)

\* The tools/call requests naming a tool registered with register_tool_typed
\* whose arguments do not deserialise into the argument record.
TypedCallsWithInvalidArguments ==
    {k \in RequestsAfterHandshake :
        /\ dispatched[k].raw.method = "tools/call"
        /\ dispatched[k].raw.params = "valid"
        /\ dispatched[k].raw.name \in server.typed
        /\ dispatched[k].raw.arguments = "invalid"}

\* C15: such a call is answered with exactly one message, a success response
\* carrying the request's identifier whose CallToolResult has isError=true
\* and a first text item "Invalid arguments for tool <name>"; the user
\* handler is not invoked and no error response is written for the call.
C15_TypedInvalidArguments ==
    \A k \in TypedCallsWithInvalidArguments :
        LET d == dispatched[k] IN
        /\ Len(d.sent) = 1
        /\ d.sent[1].kind = "result"
        /\ d.sent[1].id = d.raw.id
        /\ d.sent[1].result[1] = "CallToolResult"
        /\ d.sent[1].result[3] = "isError=true"
        /\ d.sent[1].result[4][1] = "Invalid arguments for tool"
        /\ d.sent[1].result[4][2] = d.raw.name
        /\ d.invoked = <<>>
        /\ d.handler = "none"
        /\ d.ret = "Ok"

\* A typed tool was called with valid arguments (its handler ran) and then
\* with invalid ones.
C15_Witness ==
    /\ \E k \in TypedCallsWithInvalidArguments : dispatched[k].sent # <<>>
    /\ \E k \in RequestsAfterHandshake :
          dispatched[k].raw.arguments = "valid" /\ dispatched[k].invoked = <<"typed_echo">>

\* The type of the result the server serialises for a method and the type
\* the method of Client deserialises the result into.
ServerResultType(method) ==
    CASE method = "initialize" -> "InitializeResult"
      [] method = "tools/list" -> "ListToolsResult"
      [] method = "tools/call" -> "CallToolResult"
      [] method = "resources/list" -> "Vec<Resource>"
      [] method = "resources/read" -> "ReadResourceResult"
      [] method = "prompts/list" -> "ListPromptsResult"
      [] method = "prompts/get" -> "GetPromptResult"
ClientResultType(method) ==
    CASE method = "initialize" -> "InitializeResult"
      [] method = "tools/list" -> "Vec<Tool>"
      [] method = "tools/call" -> "CallToolResult"
      [] method = "resources/list" -> "Vec<Resource>"
      [] method = "resources/read" -> "ReadResourceResult"
      [] method = "prompts/list" -> "ListPromptsResult"
      [] method = "prompts/get" -> "GetPromptResult"

\* The JSON a value of the type serialises to: a Vec is an array of its
\* elements, a struct an object with its fields.
JsonShape(type) ==
    CASE type = "Vec<Tool>" -> <<"array", "Tool">>
      [] type = "Vec<Resource>" -> <<"array", "Resource">>
      [] type = "ListToolsResult" -> <<"object", "tools", <<"array", "Tool">>>>
      [] OTHER -> <<"object", type>>

\* serde_json::from_value::<R>(response_val) at the end of
\* send_request_with_id: a sequence type takes an array, a struct an object
\* with its fields.
FromValue(json, type) == IF json = JsonShape(type) THEN "Ok" ELSE "Err"

\* The tools/list requests an initialised session has dispatched.
ListToolsRequests ==
    {k \in RequestsAfterHandshake : dispatched[k].raw.method = "tools/list"}

\* C16 as stated: the result an initialised session writes for tools/list
\* carries the metadata of every registered tool and is one Client::list_tools
\* deserialises successfully.
C16_ListToolsAccepted ==
    \A k \in ListToolsRequests :
        /\ Len(dispatched[k].sent) = 1
        /\ dispatched[k].sent[1].kind = "result"
        /\ dispatched[k].sent[1].result = ListToolsResultOf(server)
        /\ FromValue(JsonShape(ServerResultType("tools/list")),
                     ClientResultType("tools/list")) = "Ok"

\* The initialize requests the session answered.
AnsweredInitialize ==
    {k \in DOMAIN dispatched :
        dispatched[k].raw.method = "initialize" /\ dispatched[k].sent # <<>>}

\* C17: the capabilities of every initialize response the session writes
\* contain tools with listChanged=false if and only if at least one tool is
\* registered on the server; with no registered tool the tools field is
\* absent.
C17_ToolsCapability ==
    \A k \in AnsweredInitialize :
        LET result == dispatched[k].sent[1].result IN
        /\ dispatched[k].sent[1].kind = "result"
        /\ result[1] = "InitializeResult"
        /\ (result[2] = "tools.listChanged=false") <=> (server.tools # {})
        /\ (result[2] = "no tools") <=> (server.tools = {})

\* A server without tools has answered an initialize request.
C17_Witness ==
    /\ server.tools = {}
    /\ AnsweredInitialize # {}
    /\ is_initialized

\* The session has ended: run has returned and dropped the receiver.
SessionEnded == server_loop \in {"returned_ok", "returned_err"}

\* C18: every send_notification called on a retained handle after run has
\* returned returns ChannelClosed and adds nothing to the outbox, and the
\* call does not wait: it can complete in any state in which the session has
\* ended.
C18_SendAfterEndFails ==
    /\ \A i \in DOMAIN handle_sends :
          handle_sends[i].at \in {"returned_ok", "returned_err"} =>
              handle_sends[i].res = "ChannelClosed"
    /\ SessionEnded => notification_queue = <<>>
    /\ (/\ SessionEnded
        /\ Len(handle_sends) < MaxHandleSends
        /\ \E k \in DOMAIN dispatched : dispatched[k].invoked # <<>>)
          => ENABLED SendNotification

\* A handle kept from a tool handler was used after run returned with an
\* error.
C18_Witness ==
    /\ server_loop = "returned_err"
    /\ handle_sends # <<>>
    /\ handle_sends[Len(handle_sends)] = [at |-> "returned_err", res |-> "ChannelClosed"]

IsPrefix(a, b) == Len(a) <= Len(b) /\ a = SubSeq(b, 1, Len(a))

\* What the session has written since it closed the outbox.
WrittenSinceClose == SubSeq(server_sent, drain.sent + 1, Len(server_sent))

\* One turn of the drain loop.
DrainStep == DrainReturn \/ \E write_ok \in BOOLEAN : DrainWrite(write_ok)

\* C19: once the transport has returned none or a read error, the session
\* dispatches nothing more and reads no further frame; what it writes from
\* then on is the outbox as it was at that moment, oldest first: all of it
\* when it returns Ok, a prefix ending with the failed write when a write
\* fails. While it drains, what is left to write is the rest of that outbox
\* (nothing is added to it, so it only shrinks) and the next turn of the
\* drain loop can always be taken; with an empty outbox it returns.
C19_DrainsOutbox ==
    /\ server_loop \in {"draining", "returned_ok"} => drain # NoDrain
    /\ drain # NoDrain =>
          /\ server_loop # "running"
          /\ Len(dispatched) = drain.dispatched
          /\ server_incoming = NoFrame
          /\ server_loop = "draining" =>
                /\ WrittenSinceClose \o notification_queue = drain.outbox
                /\ ENABLED DrainStep
          /\ server_loop = "returned_ok" => WrittenSinceClose = drain.outbox
          /\ server_loop = "returned_err" =>
                /\ WrittenSinceClose # <<>>
                /\ IsPrefix(WrittenSinceClose, drain.outbox)

\* A read error arrived with two notifications in the outbox, and both have
\* been written.
C19_Witness ==
    /\ server_loop = "returned_ok"
    /\ Len(drain.outbox) = 2
    /\ WrittenSinceClose = drain.outbox
    /\ server_step = "drained"

\* The calls that have handed their request to the work queue and have no
\* reply yet.
WaitingCalls ==
    {i \in DOMAIN calls : calls[i].st \in {"queued", "taken"} /\ calls[i].reply = NoReply}

\* C20: the step in which the client loop ends, by a transport that returns
\* none, a read error, a write error or an abort, gives every call that was
\* waiting for its reply a ChannelClosed reply; once the loop has ended no
\* call waits, and a call that enqueues its request afterwards gets
\* ChannelClosed from the enqueue itself, which it can always take.
C20_PendingObserveChannelClosed ==
    /\ [](client_loop = "ended" =>
             /\ WaitingCalls = {}
             /\ \A i \in DOMAIN calls :
                   calls[i].st = "allocated" => ENABLED SendRequestWithId(i))
    /\ [][/\ (client_loop = "running" /\ client_loop' = "ended") =>
               \A i \in WaitingCalls : calls'[i].reply = ChannelClosed
          /\ client_loop = "ended" =>
               \A i \in DOMAIN calls :
                   (calls[i].st = "allocated" /\ calls'[i].st # "allocated") =>
                       calls'[i].reply = ChannelClosed]_vars

\* A read error ended the loop while two requests were waiting, one of them
\* with its slot in the pending map, and both callers got ChannelClosed.
C20_Witness ==
    /\ client = "ready"
    /\ client_loop = "ended"
    /\ client_step = "read_error"
    /\ \E i, j \in TakenCalls :
          /\ i # j
          /\ calls[i].reply = ChannelClosed
          /\ calls[j].reply = ChannelClosed

\* The client loop has work: a request in the queue or a frame on the transport.
LoopHasWork ==
    /\ client_loop = "running"
    /\ request_queue # <<>> \/ client_incoming # Nothing

\* One iteration of the select in ClientSession::run.
LoopStep == (\E ok \in BOOLEAN : TakeRequest(ok)) \/ RecvMessage

\* C21 as stated: a notification handler that never returns does not keep the
\* client loop from its next iteration: whenever the loop has a request to
\* send or a frame to handle, it can take it.
C21_LoopNeverBlocked == LoopHasWork => ENABLED LoopStep

\* A notification frame is what the loop's receive branch handles next.
NotificationReady ==
    /\ client_loop = "running"
    /\ request_queue = <<>>
    /\ client_incoming.io = "msg"
    /\ client_incoming.id = NoId
    /\ client_incoming.method # "-"

\* What the receive step must do with the notification that is ready.
NotificationHandled ==
    /\ pending_requests' = pending_requests
    /\ calls' = calls
    /\ client_loop' = "running"
    /\ IF client_incoming.method \in notification_handlers
       THEN /\ Len(last_spawn') = 1
            /\ last_spawn'[1].method = client_incoming.method
            /\ last_spawn'[1].params = (IF client_incoming.params = "absent"
                                        THEN "null" ELSE client_incoming.params)
       ELSE last_spawn' = <<>>

\* C22: the receive step on a frame without id and with a method spawns
\* exactly one task calling the handler registered for the method with the
\* frame's params (null when absent), or none when no handler is registered;
\* either way the pending map and every reply slot stay as they were.
C22_NotificationDispatch ==
    NotificationReady => (ENABLED RecvMessage /\ ~ENABLED (RecvMessage /\ ~NotificationHandled))

\* A handler was spawned with null for a notification without params while a
\* request was pending.
C22_Witness ==
    /\ client_step = "handler_spawned"
    /\ Len(last_spawn) = 1
    /\ last_spawn[1].params = "null"
    /\ pending_requests # EmptyMap

\* The keys with a client stored under them, and the keys whose task got Ok.
Present == {k \in Keys : group.sessions[k] # NoClient}
Succeeded == {k \in DOMAIN group.last.outcome : group.last.outcome[k] = "ok"}

RECURSIVE TotalTools(_)
TotalTools(ks) ==
    IF ks = {} THEN 0
    ELSE LET k == CHOOSE x \in ks : TRUE
         IN Len(ToolsOf(group.sessions[k])) + TotalTools(ks \ {k})

\* The list t holds the list part as one contiguous block.
HasBlock(t, part) ==
    \E off \in 0..(Len(t) - Len(part)) :
        \A i \in DOMAIN part : t[off + i] = part[i]

\* C23: while list_tools_all waits, every session of the group has its own
\* task; when it returns, every task has finished, the result is Ok, and the
\* list is made of the whole tool list of each session whose call succeeded,
\* one block per session and nothing else, whatever the other sessions
\* returned.
C23_ListToolsAllAggregates ==
    /\ group.lock = "read" =>
          /\ DOMAIN group.task = Present
          /\ Len(group.join_handles) = Cardinality(Present)
    /\ group.op = "list_tools_all_returned" =>
          /\ DOMAIN group.last.outcome = Present
          /\ \A k \in Present : group.last.outcome[k] \in {"ok", "err"}
          /\ group.last.ret = "Ok"
          /\ Len(group.last.tools) = TotalTools(Succeeded)
          /\ \A k \in Succeeded : HasBlock(group.last.tools, ToolsOf(group.sessions[k]))
          /\ \A i \in DOMAIN group.last.tools :
                \E k \in Succeeded : group.last.tools[i].server = group.sessions[k]

\* list_tools_all has returned the tools of one session while the call on the
\* other session failed.
C23_Witness ==
    /\ group.op = "list_tools_all_returned"
    /\ group.last.ret = "Ok"
    /\ group.last.tools # <<>>
    /\ \E k \in Present : group.last.outcome[k] = "err"

\* What remove_client(key) leaves behind.
RemoveClientPost(key) ==
    /\ group'.sessions[key] = NoClient
    /\ group.sessions[key] # NoClient =>
          /\ group.sessions[key] \in group'.dropped
          /\ group.sessions[key] \notin group'.loops
    /\ \A k \in Keys \ {key} :
          /\ group'.sessions[k] = group.sessions[k]
          /\ group.sessions[k] # NoClient =>
                /\ group.sessions[k] \in group'.loops
                /\ group.sessions[k] \notin group'.dropped

ReadBack ==
    /\ codec.last.op = "recv_message"
    /\ codec.last.ret # "Ok(None)"
    /\ codec.last.ty = codec.last.msg.ty

\* A notification whose params are there and are the JSON null.
NullParams(msg) == msg.ty = "Notification" /\ msg.params = Some(VNull)

SchemaDerived == derive.schema # NoSchema
RequiredList ==
    IF derive.schema.required = None THEN <<>> ELSE derive.schema.required.val

\* The fields that are not marked skip, and the name a field goes by in the
\* schema: its rename when it has one, its Rust name otherwise.
NotSkipped == {i \in DOMAIN derive.fields : ~derive.fields[i].skip}
SchemaName(i) ==
    IF derive.fields[i].rename # None THEN derive.fields[i].rename.val ELSE FieldName(i)

\* Marked required = true, or no override and a type that is not Option.
MustBeRequired(field) ==
    \/ field.required = Some(TRUE)
    \/ field.required = None /\ field.ty.path # "Option"

\* The field whose insert under its schema name is the last one.
LastUnderItsName(i) ==
    \A j \in NotSkipped : SchemaName(j) = SchemaName(i) => j <= i

\* C26: required lists the schema name of a non-skipped field once for each
\* such field that is marked required = true or has no override and a
\* non-Option type, and has no other entry; the required key is there only
\* when some field is required; and the property of an Option<T> field is the
\* property the same field would have with type T.
C26_RequiredRule ==
    SchemaDerived =>
        /\ \A n \in {SchemaName(i) : i \in NotSkipped} \cup {RequiredList[k] : k \in DOMAIN RequiredList} :
              Cardinality({k \in DOMAIN RequiredList : RequiredList[k] = n})
                  = Cardinality({i \in NotSkipped :
                                    SchemaName(i) = n /\ MustBeRequired(derive.fields[i])})
        /\ derive.schema.required # None =>
              /\ RequiredList # <<>>
              /\ \E i \in NotSkipped : MustBeRequired(derive.fields[i])
        /\ \A i \in NotSkipped :
              (derive.fields[i].ty.path = "Option" /\ LastUnderItsName(i)) =>
                  /\ derive.schema.properties[SchemaName(i)]
                         = PropertySchema([derive.fields[i] EXCEPT !.ty = derive.fields[i].ty.arg])
                  /\ derive.schema.properties[SchemaName(i)].type \in {"string", "integer"}

\* An Option field marked required = true is listed, a String field marked
\* required = false is not.
C26_Witness ==
    /\ SchemaDerived
    /\ Len(derive.fields) = 2
    /\ NotSkipped = {1, 2}
    /\ derive.fields[1].ty.path = "Option" /\ derive.fields[1].required = Some(TRUE)
    /\ derive.fields[2].ty.path = "String" /\ derive.fields[2].required = Some(FALSE)
    /\ SchemaName(1) # SchemaName(2)
    /\ RequiredList = <<SchemaName(1)>>

\* C27: the properties of the schema are exactly the schema names of the
\* fields that are not skipped, and required lists only such names: a
\* skipped field brings no entry, and a renamed field brings its entry under
\* its new name and none under its Rust name.
C27_SkipAndRename ==
    SchemaDerived =>
        /\ DOMAIN derive.schema.properties = {SchemaName(i) : i \in NotSkipped}
        /\ \A k \in DOMAIN RequiredList :
              RequiredList[k] \in {SchemaName(i) : i \in NotSkipped}
        /\ \A i \in DOMAIN derive.fields :
              LET others == {SchemaName(j) : j \in NotSkipped \ {i}} IN
              /\ derive.fields[i].skip =>
                    /\ DOMAIN derive.schema.properties = others
                    /\ \A k \in DOMAIN RequiredList : RequiredList[k] \in others
              /\ (~derive.fields[i].skip /\ SchemaName(i) # FieldName(i)) =>
                    /\ SchemaName(i) \in DOMAIN derive.schema.properties
                    /\ MustBeRequired(derive.fields[i]) =>
                          \E k \in DOMAIN RequiredList : RequiredList[k] = SchemaName(i)
                    /\ FieldName(i) \in DOMAIN derive.schema.properties =>
                          FieldName(i) \in others
                    /\ \A k \in DOMAIN RequiredList :
                          RequiredList[k] = FieldName(i) => FieldName(i) \in others

\* A struct whose first field is skipped and whose second, required, field is
\* renamed: the schema has the one property "z", which is required.
C27_Witness ==
    /\ SchemaDerived
    /\ Len(derive.fields) = 2
    /\ derive.fields[1].skip
    /\ ~derive.fields[2].skip /\ derive.fields[2].rename = Some("z")
    /\ DOMAIN derive.schema.properties = {"z"}
    /\ RequiredList = <<"z">>

\* The response the loop handles next carries the string "1" while the
\* request with the integer identifier 1 is waiting for its response.
StringIdResponseReady ==
    /\ client_loop = "running"
    /\ request_queue = <<>>
    /\ client_incoming.io = "msg"
    /\ client_incoming.id = Str(1)
    /\ Num(1) \in DOMAIN pending_requests

\* The frame was dropped as a stray response.
DroppedAsStray ==
    /\ client_step' = "stray_response"
    /\ pending_requests' = pending_requests
    /\ calls' = calls

\* C28: an integer and a string identifier are never equal, no slot is ever
\* completed by a frame carrying another identifier than the request's, and
\* the receive step on a response with the string "1" while integer 1 is
\* pending (and string "1" is not) cannot end otherwise than with the frame
\* dropped as a stray response and the slot of integer 1 still pending.
C28_VariantsDistinct ==
    /\ \A n \in 0..MaxCalls : Num(n) # Str(n)
    /\ \A i \in DOMAIN calls :
          calls[i].by # Nothing => calls[i].by.id = calls[i].id
    /\ (StringIdResponseReady /\ Str(1) \notin DOMAIN pending_requests) =>
          (ENABLED RecvMessage /\ ~ENABLED (RecvMessage /\ ~DroppedAsStray))

\* A response with the string "1" has just been dropped as stray while the
\* request with the integer 1 is still waiting.
C28_Witness ==
    /\ client_step = "stray_response"
    /\ client_incoming = Nothing
    /\ Num(1) \in DOMAIN pending_requests
    /\ calls[pending_requests[Num(1)]].reply = NoReply
    /\ client = "ready"

\* A request waits in the work queue and a frame is ready on the transport.
BothReady ==
    /\ client_loop = "running"
    /\ request_queue # <<>>
    /\ client_incoming # Nothing

\* C29: when a request waits in the work queue and a frame is ready at the
\* same time, the loop's next iteration takes the request: the receive
\* branch is not enabled until the queue is empty.
C29_OutboundFirst ==
    BothReady =>
        /\ ENABLED (\E ok \in BOOLEAN : TakeRequest(ok))
        /\ ~ENABLED RecvMessage

\* The loop has just sent a request while a frame was ready, and the frame is
\* still there.
C29_Witness ==
    /\ client_step = "request_sent"
    /\ client_loop = "running"
    /\ client_incoming # Nothing
    /\ client_incoming.io = "msg"
    /\ request_queue = <<>>
    /\ Len(client_sent) >= 2

\* A notification waits in the outbox and a frame is ready on the transport.
OutboxAndInboundReady ==
    /\ server_loop = "running"
    /\ notification_queue # <<>>
    /\ server_incoming.io = "msg"

\* C30 as stated: when a notification waits in the outbox and an inbound
\* frame is ready at the same time, the server loop's next iteration writes
\* the notification: the inbound branch is not taken.
C30_OutboxFirst ==
    OutboxAndInboundReady =>
        ~ENABLED (\E h \in HandlerOutcomes, write_ok \in BOOLEAN : ServeMessage(h, write_ok))

(***************************************************************************)
(* Properties of handler invocations on a server session                   *)
(***************************************************************************)

\* The loop can take a step that reads the next inbound frame.
LoopReadsInbound ==
    \/ ENABLED (\E want \in ProgressCounts : BeginToolCall(want))
    \/ ENABLED (\E h \in HandlerOutcomes, write_ok \in BOOLEAN : ServeOther(h, write_ok))
    \/ ENABLED CloseOutbox

\* C32: on one server session at most one handler invocation is in progress;
\* while one is, the loop reads no inbound frame, even one that is ready; the
\* dispatches finish in the order their frames were read and the responses on
\* the transport are those of the dispatches, in that order.
C32_OneHandlerAtATime ==
    /\ Len(in_progress) <= 1
    /\ in_progress # <<>> => ~LoopReadsInbound
    /\ \A j, k \in DOMAIN dispatched : j < k => dispatched[j].frame < dispatched[k].frame
    /\ ResponsesWritten = ResponsesOfDispatches

\* A second tools/call is ready while the handler of the first is running;
\* the first was read after the handshake.
C32_Witness ==
    /\ Len(in_progress) = 1
    /\ in_progress[1].raw.id = Num(1)
    /\ server_incoming = RequestFrame(Str(1), "tools/call", "valid", "echo")
    /\ server_sent # <<>>

\* The handler of invocation i can take its next step: send its next
\* notification or return.
HandlerCanStep(i) ==
    \/ ENABLED HandlerSendsNotification(i)
    \/ ENABLED (\E res \in {"ok", "err"} : HandlerReturns(i, res))

\* The loop can take a step that makes room in the outbox.
LoopWritesOutbox == ENABLED (\E write_ok \in BOOLEAN : WriteNotification(write_ok))

\* C34 as stated: a handler invocation in progress is never stuck, whatever
\* the number of notifications it sends: in every state it can send its next
\* notification or return, or else the loop can write a notification of the
\* outbox and so make room for it.
C34_HandlerNeverStuck ==
    \A i \in DOMAIN in_progress : HandlerCanStep(i) \/ LoopWritesOutbox

\* C35 as stated, for the notifications a handler puts into the outbox during
\* a call: each of them is eventually written (or the transport refuses a
\* write, which ends the session and empties the outbox), so the outbox does
\* not stay occupied for ever.
C35_OutboxEventuallyWritten == <>[](notification_queue = <<>>)

\* The notifications of handlers on the transport, and the order of the outbox:
\* what has been written followed by what waits is in the order of enqueuing,
\* call by call and send by send.
ProgressOrder(ms) ==
    \A j, k \in DOMAIN ms :
        (j < k /\ ~IsResponse(ms[j]) /\ ~IsResponse(ms[k])) =>
            \/ ms[j].result[3] < ms[k].result[3]
            \/ ms[j].result[3] = ms[k].result[3] /\ ms[j].result[4] < ms[k].result[4]

\* A notification is on the transport only after the response of the call
\* during which it was sent, when that call was answered.
AfterItsResponse ==
    \A k \in DOMAIN server_sent :
        ~IsResponse(server_sent[k]) =>
            \A d \in DOMAIN dispatched :
                (dispatched[d].frame = server_sent[k].result[3] /\ dispatched[d].sent # <<>>) =>
                    \E j \in 1..(k - 1) : server_sent[j] = dispatched[d].sent[1]

\* The parts of C35 about order.
C35_Order == ProgressOrder(server_sent \o notification_queue) /\ AfterItsResponse

(***************************************************************************)
(* Properties of the server session: messages without an id, rejections    *)
(***************************************************************************)

\* A message without an id is ready and the loop is at the select.
NoIdReady ==
    /\ server_loop = "running"
    /\ in_progress = <<>>
    /\ server_incoming.io = "msg"
    /\ server_incoming.id = NoId

\* The dispatch of the ready frame writes nothing, queues nothing and leaves
\* the initialized flag as it was.
DispatchIsSilent ==
    /\ server_sent' = server_sent
    /\ notification_queue' = notification_queue
    /\ is_initialized' = is_initialized

\* C38: the dispatch of a message without an id writes nothing and invokes
\* no handler, before and after the handshake; it leaves the initialized flag
\* unchanged; notifications/initialized is ignored (dispatch returns Ok).
C38_NoResponseWithoutId ==
    /\ \A k \in DOMAIN dispatched :
          dispatched[k].raw.id = NoId =>
              /\ dispatched[k].sent = <<>>
              /\ dispatched[k].invoked = <<>>
              /\ dispatched[k].raw.method = "notifications/initialized" =>
                     dispatched[k].ret = "Ok"
    /\ NoIdReady =>
          ~ENABLED (/\ \E h \in HandlerOutcomes, write_ok \in BOOLEAN : ServeOther(h, write_ok)
                    /\ ~DispatchIsSilent)
    /\ \A j \in DOMAIN server_sent : IsResponse(server_sent[j]) => server_sent[j].id # NoId

\* notifications/initialized before the handshake, the handshake, another
\* notification after it.
C38_Witness ==
    /\ Len(dispatched) = 3
    /\ dispatched[1].raw = RequestFrame(NoId, "notifications/initialized", "valid", "-")
    /\ ~dispatched[1].was_initialized
    /\ dispatched[2].raw.method = "initialize" /\ dispatched[2].sent # <<>>
    /\ dispatched[3].raw = RequestFrame(NoId, "notifications/other", "absent", "-")
    /\ dispatched[3].was_initialized
    /\ is_initialized

\* A request other than initialize is ready before the handshake.
RejectedReady ==
    /\ server_loop = "running"
    /\ in_progress = <<>>
    /\ server_incoming.io = "msg"
    /\ ~is_initialized
    /\ server_incoming.id # NoId
    /\ server_incoming.method # "initialize"

\* The dispatches of such a request.
RejectedBeforeHandshake ==
    {k \in DOMAIN dispatched :
        /\ ~dispatched[k].was_initialized
        /\ dispatched[k].raw.id # NoId
        /\ dispatched[k].raw.method # "initialize"}

\* A well-formed initialize request is ready before the handshake.
InitializeReady ==
    /\ server_loop = "running"
    /\ in_progress = <<>>
    /\ ~is_initialized
    /\ server_incoming.method = "initialize"
    /\ ParsesAsRequestOf(server_incoming)

\* The dispatch of the ready initialize writes the success response under the
\* request's identifier and sets the flag.
InitializeAccepted ==
    /\ server_sent' =
           Append(server_sent, SuccessResponse(server_incoming.id, InitializeResultOf(server)))
    /\ is_initialized'
    /\ server_loop' = "running"

\* C39: the dispatch of a request rejected before the handshake writes
\* nothing, leaves the flag false and the loop running; whatever was rejected
\* before, a well-formed initialize that arrives while the flag is false is
\* accepted and answered with a success response when the write succeeds.
C39_RejectionLeavesSession ==
    /\ RejectedReady =>
          ~ENABLED (/\ \E h \in HandlerOutcomes, write_ok \in BOOLEAN : ServeOther(h, write_ok)
                    /\ ~(DispatchIsSilent /\ server_loop' = "running"))
    /\ \A k \in RejectedBeforeHandshake :
          /\ dispatched[k].sent = <<>>
          /\ dispatched[k].ret = "Err"
          /\ k < Len(dispatched) => ~dispatched[k + 1].was_initialized
          /\ k = Len(dispatched) => ~is_initialized
    /\ (InitializeReady /\ RejectedBeforeHandshake # {}) =>
          /\ ENABLED (\E h \in HandlerOutcomes : ServeOther(h, TRUE))
          /\ ~ENABLED (/\ \E h \in HandlerOutcomes : ServeOther(h, TRUE)
                       /\ ~InitializeAccepted)

\* tools/list was rejected before the handshake and the initialize that
\* followed was answered.
C39_Witness ==
    /\ Len(dispatched) = 2
    /\ dispatched[1].raw = RequestFrame(Num(1), "tools/list", "valid", "-")
    /\ ~dispatched[1].was_initialized
    /\ dispatched[2].raw = RequestFrame(Num(0), "initialize", "valid", "-")
    /\ server_sent = <<SuccessResponse(Num(0), InitializeResultOf(server))>>
    /\ is_initialized

\* The dispatches of a message with an id member that is a protocol fault: a
\* request other than initialize before the handshake, an initialize after it,
\* an envelope that does not deserialise into a Request, or params that do not
\* deserialise into the parameter record of a method the session serves.
ProtocolFaults ==
    {k \in DOMAIN dispatched :
        /\ dispatched[k].raw.id # NoId
        /\ \/ ~dispatched[k].was_initialized /\ dispatched[k].raw.method # "initialize"
           \/ dispatched[k].was_initialized /\ dispatched[k].raw.method = "initialize"
           \/ ~ParsesAsRequestValue(dispatched[k].raw)
           \/ /\ dispatched[k].raw.params = "invalid"
              /\ dispatched[k].raw.method \in {"initialize", "tools/call"} \cup server.handlers}

\* C33 as stated: every protocol fault was answered with an error response,
\* or it ended the session: it is the last frame dispatched and the loop has
\* left the select.
C33_FaultsNeverSwallowed ==
    \A k \in ProtocolFaults :
        \/ /\ dispatched[k].sent # <<>>
           /\ dispatched[k].sent[1].kind = "error"
        \/ /\ k = Len(dispatched)
           /\ server_loop # "running"

(***************************************************************************)
(* Properties of both loops: a blank frame                                 *)
(***************************************************************************)

\* A blank frame is ready for the client loop, which is at its select with an
\* empty work queue.
BlankReadyAtClient ==
    /\ client_loop = "running"
    /\ executor = "free"
    /\ request_queue = <<>>
    /\ client_incoming = Blank

\* The receive ends the session as a close does: the loop ends with "closed",
\* not with a read error, writes nothing, and every caller whose request was
\* pending gets ChannelClosed.
EndsLikeClose ==
    /\ client_loop' = "ended"
    /\ client_step' = "closed"
    /\ client_sent' = client_sent
    /\ pending_requests' = EmptyMap
    /\ \A id \in DOMAIN pending_requests : calls'[pending_requests[id]].reply = ChannelClosed

\* A blank frame is ready for the server loop, which is at its select.
BlankReadyAtServer ==
    /\ server_loop = "running"
    /\ in_progress = <<>>
    /\ server_incoming = BlankFrame

\* The server loop can read the frame that is ready.
ServerReads ==
    \/ ENABLED (\E h \in HandlerOutcomes, write_ok \in BOOLEAN : ServeMessage(h, write_ok))
    \/ ENABLED CloseOutbox

SentIds == {client_sent[k].id : k \in DOMAIN client_sent}

\* The enqueue of call i after the loop has ended fails at once with
\* ChannelClosed and puts nothing anywhere.
EnqueueFails(i) ==
    /\ calls'[i].reply = ChannelClosed
    /\ request_queue' = request_queue
    /\ client_sent' = client_sent

\* C40: once the client loop has ended, a request that was still in the work
\* queue (enqueued, never taken) has completed with ChannelClosed, once, and
\* was never handed to the transport; so has a request whose enqueue came
\* after the end; a caller that has not enqueued yet can do so and can only
\* get ChannelClosed; the loop takes nothing more from the queue.
C40_QueuedAtEndChannelClosed ==
    client_loop = "ended" =>
        /\ request_queue = <<>>
        /\ \A i \in DOMAIN calls :
              calls[i].st \in {"queued", "failed"} =>
                  /\ calls[i].reply = ChannelClosed
                  /\ calls[i].n = 1
                  /\ calls[i].id \notin SentIds
        /\ \A i \in DOMAIN calls :
              calls[i].st = "allocated" =>
                  /\ ENABLED SendRequestWithId(i)
                  /\ ~ENABLED (SendRequestWithId(i) /\ ~EnqueueFails(i))
        /\ ~ENABLED (\E ok \in BOOLEAN : TakeRequest(ok))

\* A write error ended the loop while another request was in the queue behind
\* the one being written; its caller got ChannelClosed.
C40_Witness ==
    /\ client_loop = "ended"
    /\ client_step = "write_failed"
    /\ \E i \in DOMAIN calls : calls[i].st = "queued" /\ calls[i].reply = ChannelClosed

(***************************************************************************)
(* Properties of the session group: the read lock of list_tools_all        *)
(***************************************************************************)

\* The keys list_tools_all spawned a task for.
FannedOut == {group.join_handles[i] : i \in DOMAIN group.join_handles}

\* The keys the last list_tools_all reported on.
Reported == {group.last.order[i] : i \in DOMAIN group.last.order}

\* C37: from the fan-out of list_tools_all to its return the read lock is
\* held: neither add_client nor remove_client can take effect, so the map
\* still holds exactly the sessions a task was spawned for; list_tools_all
\* returns only when every task has finished, so a session that does not
\* answer keeps it, and with it every add_client and remove_client, waiting;
\* the result reports exactly on the members at the start, and with the
\* return the lock is free for remove_client again.
C37_ReadLockUntilReturn ==
    /\ group.lock = "read" =>
          /\ \A key \in Keys : ~ENABLED AddClient(key) /\ ~ENABLED RemoveClient(key)
          /\ FannedOut = Present
          /\ ENABLED ListToolsAllReturn <=>
                 \A k \in DOMAIN group.task : group.task[k] # "running"
    /\ group.op = "list_tools_all_returned" =>
          /\ group.lock = "free"
          /\ Reported = Present
          /\ DOMAIN group.last.outcome = Present
          /\ \A key \in Keys : ENABLED RemoveClient(key)

\* list_tools_all waits for one of two sessions; the program could still make
\* another client to add.
C37_Witness ==
    /\ group.lock = "read"
    /\ Cardinality(Present) = 2
    /\ \E j, k \in Present : group.task[j] = "running" /\ group.task[k] = "ok"
    /\ group.made < MaxClients

\* The calls that have passed new_request_id and not yet enqueued.
Enqueuing == {i \in DOMAIN calls : calls[i].st = "allocated"}

\* How often call i is in the work queue, and how often its request was
\* handed to the transport.
TimesQueued(i) == Cardinality({k \in DOMAIN request_queue : request_queue[k] = i})
TimesSent(i) == Cardinality({k \in DOMAIN client_sent : client_sent[k].id = calls[i].id})

\* C31: the work queue never holds more than 32 requests; while the loop
\* runs, a caller can enqueue exactly when the queue holds fewer than 32, so
\* a caller that finds it full waits and can proceed as soon as the loop has
\* taken a request; every enqueued request is in the queue once and not on
\* the transport, every taken request is on the transport once and not in the
\* queue, and a request not yet enqueued is in neither.
C31_QueueBounded ==
    /\ Len(request_queue) <= QueueCapacity
    /\ client_loop = "running" =>
          /\ \A i \in Enqueuing :
                ENABLED SendRequestWithId(i) <=> Len(request_queue) < QueueCapacity
          /\ \A i \in DOMAIN calls :
                /\ calls[i].st = "allocated" => TimesQueued(i) = 0 /\ TimesSent(i) = 0
                /\ calls[i].st = "queued" => TimesQueued(i) = 1 /\ TimesSent(i) = 0
                /\ calls[i].st = "taken" => TimesQueued(i) = 0 /\ TimesSent(i) = 1
    /\ (Len(request_queue) = QueueCapacity /\ client_loop = "running" /\ executor = "free") =>
          /\ ENABLED TakeRequest(TRUE)
          /\ ~ENABLED (TakeRequest(TRUE) /\ ~(Len(request_queue') = QueueCapacity - 1))

\* The queue is full, the loop is running, and a caller has a request to
\* enqueue.
C31_Witness ==
    /\ Len(request_queue) = QueueCapacity
    /\ client_loop = "running"
    /\ Enqueuing # {}

====
